---- MODULE Spec2Model ----
(***************************************************************************)
(* Validation and repair of diagram plans (backend/diagram_validator.py). *)
(*                                                                         *)
(* A raw plan is an untyped JSON-like tree.  Every value carries its       *)
(* Python type as a tag, and every field access goes through the same      *)
(* coercions the code applies (x or default, strip, slicing, int()).       *)
(* Strings are TLA+ strings; Len, SubSeq and \o act on them as on Python   *)
(* strings.                                                                *)
(***************************************************************************)
EXTENDS Integers, Sequences, FiniteSets, TLC

VARIABLES diagram_type, plan, pc, result, built, recheck, valid_plan

\* The text given to the label sanitizer, its result and the result of a second pass.
VARIABLES label_site, label_text, label_once, label_twice, label_pc

\* One render: the kind, the plan handed to the renderer, what it emits.
VARIABLES render_kind, render_plan, render_out, render_pc

\* One call of validate_and_retry or plan_uml: the function called, whether it
\* was given a producer, how often it asked for a correction, how it ended.
VARIABLES caller, llm, asked, outcome

\* The dicts in memory during one call: heap maps an address to the dict stored
\* there, refs_in is the list the caller passes, refs_out the list the call builds.
VARIABLES heap, refs_in, refs_out, frame_op, frame_pc

\* One render of a mind map: the plan rendered, the root loop's position, the
\* calls of emit_tree in progress and the nodes emitted so far.
VARIABLES tree_plan, root_i, stack, emitted, tree_pc

\* The response cache of the agent: _cache (its keys) and _cache_order; then,
\* for the comparison with a least-recently-used order, the keys by their last
\* use, the key last evicted and the key that was least recently used then.
VARIABLES cache, cache_order, recency, evicted, lru_then

\* The usage counter of one user: the diagrams_this_month column of the user's
\* row, the user object of each request's database session, and the number of
\* calls of check_and_increment_usage that returned without raising.
VARIABLES db_count, session, granted

\* One subscription and its payment in the database: the status of the
\* subscription row, the plan of its user, the number of Payment rows with the
\* razorpay_payment_id of the checkout; and where each call of verify_payment and
\* each delivery of the subscription.activated webhook stands.
VARIABLES sub_status, user_plan, payments, verify, webhook

plan_vars == <<diagram_type, plan, pc, result, built, recheck, valid_plan>>

label_vars == <<label_site, label_text, label_once, label_twice, label_pc>>

render_vars == <<render_kind, render_plan, render_out, render_pc>>

retry_vars == <<caller, llm, asked, outcome>>

frame_vars == <<heap, refs_in, refs_out, frame_op, frame_pc>>

tree_vars == <<tree_plan, root_i, stack, emitted, tree_pc>>

\* The variables of the application around the validators and renderers.
cache_vars == <<cache, cache_order, recency, evicted, lru_then>>

usage_vars == <<db_count, session, granted>>

pay_vars == <<sub_status, user_plan, payments, verify, webhook>>

app_vars == <<tree_vars, cache_vars, usage_vars, pay_vars>>

vars == <<plan_vars, label_vars, render_vars, retry_vars, frame_vars, app_vars>>

(***************************************************************************)
(* JSON values as Python sees them.                                        *)
(***************************************************************************)
JNull == [t |-> "null"]
JStr(s) == [t |-> "str", s |-> s]
JInt(n) == [t |-> "int", n |-> n]
JBool(b) == [t |-> "bool", b |-> b]
JList(l) == [t |-> "list", l |-> l]
JMap(m) == [t |-> "map", m |-> m]

EmptyDict == <<>>

\* bool(v): Python truthiness.
Truthy(v) ==
    CASE v.t = "null" -> FALSE
      [] v.t = "str" -> Len(v.s) > 0
      [] v.t = "int" -> v.n # 0
      [] v.t = "bool" -> v.b
      [] v.t = "list" -> Len(v.l) > 0
      [] v.t = "map" -> DOMAIN v.m # {}

\* d.get(k) on a dict d.
Get(d, k) == IF k \in DOMAIN d THEN d[k] ELSE JNull

\* (a or b)
PyOr(a, b) == IF Truthy(a) THEN a ELSE b

isinstance_dict(v) == v.t = "map"

isinstance_list(v) == v.t = "list"

\* s[:n] on a string or a list.
Slice(s, n) == IF Len(s) > n THEN SubSeq(s, 1, n) ELSE s

IsSpace(c) == c \in {" ", "\t", "\n", "\r"}

RECURSIVE LStrip(_)
LStrip(s) ==
    IF Len(s) > 0 /\ IsSpace(SubSeq(s, 1, 1)) THEN LStrip(SubSeq(s, 2, Len(s))) ELSE s

RECURSIVE RStrip(_)
RStrip(s) ==
    IF Len(s) > 0 /\ IsSpace(SubSeq(s, Len(s), Len(s)))
    THEN RStrip(SubSeq(s, 1, Len(s) - 1))
    ELSE s

\* str.strip()
Strip(s) == RStrip(LStrip(s))

Uppers == "ABCDEFGHIJKLMNOPQRSTUVWXYZ"

Lowers == "abcdefghijklmnopqrstuvwxyz"

LowerChar(c) ==
    IF \E i \in 1..26 : SubSeq(Uppers, i, i) = c
    THEN LET i == CHOOSE j \in 1..26 : SubSeq(Uppers, j, j) = c IN SubSeq(Lowers, i, i)
    ELSE c

RECURSIVE Lower(_)
\* str.lower()
Lower(s) ==
    IF Len(s) = 0 THEN s ELSE LowerChar(SubSeq(s, 1, 1)) \o Lower(SubSeq(s, 2, Len(s)))

Digits == "0123456789"

RECURSIVE NatStr(_)
NatStr(i) ==
    IF i < 10 THEN SubSeq(Digits, i + 1, i + 1)
    ELSE NatStr(i \div 10) \o SubSeq(Digits, (i % 10) + 1, (i % 10) + 1)

\* str(i) of an int, as in an f-string.
IntStr(i) == IF i < 0 THEN "-" \o NatStr(0 - i) ELSE NatStr(i)

\* str(v) of a scalar JSON value.
PyStr(v) ==
    CASE v.t = "str" -> v.s
      [] v.t = "int" -> IntStr(v.n)
      [] v.t = "null" -> "None"
      [] v.t = "bool" -> IF v.b THEN "True" ELSE "False"

IsDigit(c) == \E i \in 1..10 : SubSeq(Digits, i, i) = c

DigitVal(c) == (CHOOSE i \in 1..10 : SubSeq(Digits, i, i) = c) - 1

AllDigits(s) == Len(s) > 0 /\ \A i \in 1..Len(s) : IsDigit(SubSeq(s, i, i))

RECURSIVE DigitsVal(_)
DigitsVal(s) ==
    IF Len(s) = 0 THEN 0
    ELSE 10 * DigitsVal(SubSeq(s, 1, Len(s) - 1)) + DigitVal(SubSeq(s, Len(s), Len(s)))

\* int(s) of a string accepts surrounding whitespace and one sign.
IntLiteralBody(s) ==
    IF Len(s) > 0 /\ SubSeq(s, 1, 1) \in {"+", "-"} THEN SubSeq(s, 2, Len(s)) ELSE s

IsIntLiteral(s) == AllDigits(IntLiteralBody(Strip(s)))

IntLiteralVal(s) ==
    LET u == Strip(s)
        v == DigitsVal(IntLiteralBody(u))
    IN IF SubSeq(u, 1, 1) = "-" THEN 0 - v ELSE v

\* order = int(order) if order is not None else (i + 1), with TypeError and
\* ValueError giving i + 1; then max(1, order).  i is the 0-based index.
OrderOf(v, i) ==
    LET o == CASE v.t = "null" -> i + 1
               [] v.t = "int" -> v.n
               [] v.t = "bool" -> IF v.b THEN 1 ELSE 0
               [] v.t = "str" -> IF IsIntLiteral(v.s) THEN IntLiteralVal(v.s) ELSE i + 1
               [] v.t = "list" -> i + 1
               [] v.t = "map" -> i + 1
    IN IF o < 1 THEN 1 ELSE o

\* The indices (1-based, ascending) of the entries of a list that are dicts:
\* the loops skip every other entry with `continue`.
DictIdx(l) == SelectSeq([i \in 1..Len(l) |-> i], LAMBDA i : isinstance_dict(l[i]))

\* list.sort(key=lambda x: x["order"]): stable, ascending.
RECURSIVE InsertByOrder(_, _)
InsertByOrder(sorted, x) ==
    IF Len(sorted) = 0 THEN <<x>>
    ELSE IF sorted[Len(sorted)].order.n <= x.order.n THEN Append(sorted, x)
    ELSE Append(InsertByOrder(SubSeq(sorted, 1, Len(sorted) - 1), x), sorted[Len(sorted)])

RECURSIVE SortByOrder(_)
SortByOrder(l) ==
    IF Len(l) = 0 THEN <<>>
    ELSE InsertByOrder(SortByOrder(SubSeq(l, 1, Len(l) - 1)), l[Len(l)])

\* Renumber without its assignment: the entries keep the order they were sorted by.
RenumberSkipped(l) == l

\* for j, e in enumerate(l): e["order"] = j + 1
Renumber(l) == [j \in 1..Len(l) |-> [l[j] EXCEPT !.order = JInt(j)]]

SortAndRenumber(l) == Renumber(SortByOrder(l))

\* _ensure_list(obj, key)
ensure_list(obj, key) ==
    LET val == Get(obj, key) IN IF isinstance_list(val) THEN val.l ELSE <<>>

\* _ensure_dict(obj, key)
ensure_dict(obj, key) ==
    LET val == Get(obj, key) IN IF isinstance_dict(val) THEN val.m ELSE EmptyDict

\* (d.get(key) or default).strip()
StripOr(d, key, default) == Strip(PyOr(Get(d, key), JStr(default)).s)

ValidationResult(is_valid, errors, repaired) ==
    [is_valid |-> is_valid, errors |-> errors, repaired |-> repaired]

\* What a validator has assembled when it reaches its return statement: its
\* local variables errors and repaired.
Built(errors, repaired) == [errors |-> errors, repaired |-> repaired]

\* The common return of the validators:
\* ValidationResult(is_valid=len(errors) == 0, errors, repaired if errors else None)
Finish(b) ==
    ValidationResult(Len(b.errors) = 0, b.errors,
                     IF Len(b.errors) > 0 THEN b.repaired ELSE JNull)

ARCHITECTURE_TYPES ==
    {"server", "database", "auth", "balancer", "client", "function", "queue", "gateway",
     "cdn", "cache", "search", "storage", "external", "monitoring"}

MaxArchComponents == 20

MinArchComponents == 2

MaxArchName == 60

ArchComp(name, type) == JMap([name |-> JStr(name), type |-> JStr(type)])

\* The body of the loop of validate_architecture for a dict entry at 0-based index i.
ArchEntry(comp, i) ==
    LET stripped == StripOr(comp, "name", "")
        name == IF Len(stripped) > 0 THEN stripped ELSE "Component_" \o IntStr(i)
        t == Lower(StripOr(comp, "type", "server"))
        ctype == IF t \in ARCHITECTURE_TYPES THEN t ELSE "server"
    IN ArchComp(Slice(name, MaxArchName), ctype)

\* The errors of the loop over components (lines 73-76).
ArchErrors(components) ==
    LET bad == SelectSeq([i \in 1..Len(components) |-> i],
                         LAMBDA i : ~isinstance_dict(components[i]))
    IN [j \in 1..Len(bad) |-> "components[" \o IntStr(bad[j] - 1) \o "] is not an object"]

\* The repaired components of the loop over components (lines 73-81).
ArchComponents(components) ==
    LET idx == DictIdx(components)
    IN [j \in 1..Len(idx) |-> ArchEntry(components[idx[j]].m, idx[j] - 1)]

\* validate_architecture after the loop; errors0 and comps0 are errors and
\* repaired_components there.
ArchRepair(components, errors0, comps0) ==
    LET trimmed == Len(comps0) > MaxArchComponents
        comps1 == IF trimmed THEN SubSeq(comps0, 1, MaxArchComponents) ELSE comps0
        errors1 == IF trimmed THEN Append(errors0, "Trimmed components to 20") ELSE errors0
        padded == Len(comps1) < MinArchComponents
        comps2 == IF padded THEN Append(comps1, ArchComp("Database", "database")) ELSE comps1
        errors2 == IF padded THEN Append(errors1, "Added default second component")
                   ELSE errors1
    IN IF Len(components) = 0
       THEN Built(<<"Missing or empty 'components' list">>,
                JMap([components |->
                    JList(<<ArchComp("API", "server"), ArchComp("Database", "database")>>)]))
       ELSE IF Len(errors0) > 0 /\ Len(comps0) = 0
       THEN Built(errors0, JNull)
       ELSE Built(errors2, JMap([components |-> JList(comps2)]))

architecture_plan(p) ==
    ArchRepair(ensure_list(p, "components"), ArchErrors(ensure_list(p, "components")),
               ArchComponents(ensure_list(p, "components")))

\* The returns of lines 70 and 84 have errors, so every return of the function is
\* (len(errors) == 0, errors, repaired if errors else None).
validate_architecture(p) == Finish(architecture_plan(p))

\* _truncate_string(s, max_len=80) of a string.
truncate_string(s) ==
    LET t == Strip(s) IN IF Len(t) > 80 THEN SubSeq(t, 1, 80) \o "..." ELSE t

HLD_LAYERS == {"presentation", "application", "business", "data", "external", "infrastructure"}

MaxHldName == 50

MaxHldTech == 40

MaxHldLabel == 40

HldItem(name, type, tech) == [name |-> JStr(name), type |-> JStr(type), tech |-> JStr(tech)]

\* One entry of a layer list at 0-based index j (lines 110-116).
HldEntry(item, j) ==
    IF isinstance_dict(item)
    THEN LET stripped == StripOr(item.m, "name", "")
             name == IF Len(stripped) > 0 THEN stripped ELSE "Item_" \o IntStr(j)
             t == Lower(StripOr(item.m, "type", "service"))
             tech == PyOr(Get(item.m, "tech"), JStr("")).s
         IN JMap(HldItem(Slice(name, MaxHldName), t, Slice(tech, MaxHldTech)))
    ELSE JMap(HldItem("Component_" \o IntStr(j), "service", ""))

HldLayer(val) ==
    IF isinstance_list(val) THEN [j \in 1..Len(val.l) |-> HldEntry(val.l[j], j - 1)] ELSE <<>>

\* dict.setdefault(k, v): sets k only when k is not yet a key of d.
setdefault(d, k, v) == IF k \in DOMAIN d THEN d ELSE (k :> v) @@ d

HldDefaults(layers) ==
    setdefault(
      setdefault(
        setdefault(
          setdefault(layers, "presentation",
                     JList(<<JMap(HldItem("Web App", "webapp", "React"))>>)),
          "application", JList(<<JMap(HldItem("API", "gateway", "REST"))>>)),
        "business", JList(<<JMap(HldItem("Core Service", "service", "Backend"))>>)),
      "data", JList(<<JMap(HldItem("Database", "database", "PostgreSQL"))>>))

hld_plan(p) ==
    LET layers == ensure_dict(p, "layers")
        flows == ensure_list(p, "flows")
        repaired_layers == [key \in HLD_LAYERS |-> JList(HldLayer(Get(layers, key)))]
        fidx == SelectSeq(DictIdx(flows),
                    LAMBDA i : /\ StripOr(flows[i].m, "from", "") \in HLD_LAYERS
                               /\ StripOr(flows[i].m, "to", "") \in HLD_LAYERS)
        repaired_flows ==
            [j \in 1..Len(fidx) |->
                LET f == flows[fidx[j]].m
                IN JMap([from |-> JStr(StripOr(f, "from", "")),
                         to |-> JStr(StripOr(f, "to", "")),
                         label |-> JStr(Slice(StripOr(f, "label", ""), MaxHldLabel))])]
        empty == \A key \in HLD_LAYERS : Len(repaired_layers[key].l) = 0
        errors == IF empty THEN <<"No layer has any components">> ELSE <<>>
        final_layers == IF empty THEN HldDefaults(repaired_layers) ELSE repaired_layers
    IN Built(errors, JMap([type |-> JStr("hld"), layers |-> JMap(final_layers),
                           flows |-> JList(repaired_flows)]))

validate_hld(p) == Finish(hld_plan(p))

CLASS_RELATIONSHIP_TYPES ==
    {"extends", "implements", "associates", "uses", "composition", "aggregation"}

MaxMembers == 8

MaxMemberLen == 60

MaxClassName == 50

MaxClasses == 15

MaxClassLabel == 30

MaxModules == 15

MaxModuleName == 50

MaxLldLabel == 40

\* attrs = c.get(key); attrs[:8] if it is a list, else []; [str(a)[:60] for a in attrs]
Members(c, key) ==
    LET v == Get(c, key)
        a == IF isinstance_list(v) THEN Slice(v.l, MaxMembers) ELSE <<>>
    IN JList([k \in 1..Len(a) |-> JStr(Slice(PyStr(a[k]), MaxMemberLen))])

\* (d.get("name") or "").strip() or f"{prefix}{i}"
NameOr(d, prefix, i) ==
    LET s == StripOr(d, "name", "") IN IF Len(s) > 0 THEN s ELSE prefix \o IntStr(i)

LldClass(c, j) ==
    JMap([name |-> JStr(Slice(NameOr(c, "Class_", j), MaxClassName)),
          attributes |-> Members(c, "attributes"),
          methods |-> Members(c, "methods")])

LldInterface(c, k) ==
    JMap([name |-> JStr(Slice(NameOr(c, "I_", k), MaxClassName)),
          methods |-> Members(c, "methods")])

LldModuleName(mod, i) == Slice(NameOr(mod, "Module_", i), MaxModuleName)

LldModule(mod, i) ==
    LET classes == ensure_list(mod, "classes")
        interfaces == ensure_list(mod, "interfaces")
        cidx == DictIdx(classes)
        iidx == DictIdx(interfaces)
    IN JMap([name |-> JStr(LldModuleName(mod, i)),
             classes |-> JList([j \in 1..Len(cidx) |->
                                   LldClass(classes[cidx[j]].m, cidx[j] - 1)]),
             interfaces |-> JList([j \in 1..Len(iidx) |->
                                   LldInterface(interfaces[iidx[j]].m, iidx[j] - 1)])])

ExampleModule ==
    JMap([name |-> JStr("ExampleModule"),
          classes |-> JList(<<JMap([name |-> JStr("Example"),
                                    attributes |-> JList(<<JStr("id: string")>>),
                                    methods |-> JList(<<JStr("doSomething()")>>)])>>),
          interfaces |-> JList(<<>>)])

\* Entries of a repaired edge list whose from and to are both in names (lines 220, 273).
BothIn(edges, names) ==
    SelectSeq(edges, LAMBDA e : e.m.from.s \in names /\ e.m.to.s \in names)

NamesOf(entities) == {entities[j].m.name.s : j \in 1..Len(entities)}

\* The loop over modules (lines 151-186): one repaired module per dict entry.
LldModules(modules) ==
    LET idx == DictIdx(modules)
    IN [j \in 1..Len(idx) |-> LldModule(modules[idx[j]].m, idx[j] - 1)]

\* validate_lld after the loop over modules; modules0 is repaired_modules there.
LldRepair(modules0, dependencies) ==
    LET none == Len(modules0) = 0
        errors == IF none THEN <<"No valid modules">> ELSE <<>>
        modules1 == IF none THEN <<ExampleModule>> ELSE modules0
        module_names == IF none THEN {"ExampleModule"} ELSE NamesOf(modules0)
        From(d) == Slice(StripOr(d, "from", ""), MaxModuleName)
        To(d) == Slice(StripOr(d, "to", ""), MaxModuleName)
        didx == SelectSeq(DictIdx(dependencies),
                    LAMBDA i : /\ From(dependencies[i].m) \in module_names
                               /\ To(dependencies[i].m) \in module_names)
        deps0 == [j \in 1..Len(didx) |->
                    LET d == dependencies[didx[j]].m
                        t == Lower(StripOr(d, "type", "uses"))
                    IN JMap([from |-> JStr(From(d)), to |-> JStr(To(d)),
                             type |-> JStr(IF t \in CLASS_RELATIONSHIP_TYPES THEN t ELSE "uses"),
                             label |-> JStr(Slice(PyOr(Get(d, "label"), JStr("")).s,
                                                  MaxLldLabel))])]
        trimmed == Len(modules1) > MaxModules
        modules2 == IF trimmed THEN SubSeq(modules1, 1, MaxModules) ELSE modules1
        deps1 == IF trimmed THEN BothIn(deps0, NamesOf(modules2)) ELSE deps0
    IN Built(errors, JMap([type |-> JStr("lld"), modules |-> JList(modules2),
                           dependencies |-> JList(deps1)]))

lld_plan(p) == LldRepair(LldModules(ensure_list(p, "modules")), ensure_list(p, "dependencies"))

validate_lld(p) == Finish(lld_plan(p))

ClassEntry(c, i) ==
    JMap([name |-> JStr(Slice(NameOr(c, "Class", i), MaxClassName)),
          attributes |-> Members(c, "attributes"),
          methods |-> Members(c, "methods")])

ExampleClass ==
    JMap([name |-> JStr("Example"),
          attributes |-> JList(<<JStr("id: int")>>),
          methods |-> JList(<<JStr("doSomething()")>>)])

\* class_names.add(name): the name as it is before name[:50] (line 239).
ClassNameAdded(c, i) == NameOr(c, "Class", i)

\* The loop over classes (lines 235-248): one repaired class per dict entry.
ClassEntries(classes) ==
    LET idx == DictIdx(classes)
    IN [j \in 1..Len(idx) |-> ClassEntry(classes[idx[j]].m, idx[j] - 1)]

\* class_names after the loop over classes.
ClassNames(classes) ==
    LET idx == DictIdx(classes)
    IN {ClassNameAdded(classes[idx[j]].m, idx[j] - 1) : j \in 1..Len(idx)}

\* validate_class after the loop over classes; classes0 and names0 are
\* repaired_classes and class_names there.
ClassRepair(classes0, names0, relationships) ==
    LET none == Len(classes0) = 0
        errors0 == IF none THEN <<"No valid classes">> ELSE <<>>
        classes1 == IF none THEN <<ExampleClass>> ELSE classes0
        class_names == IF none THEN {"Example"} ELSE names0
        From(r) == StripOr(r, "from", "")
        To(r) == StripOr(r, "to", "")
        Known(r) == From(r) \in class_names /\ To(r) \in class_names
        ridx == DictIdx(relationships)
        okidx == SelectSeq(ridx, LAMBDA i : Known(relationships[i].m))
        badidx == SelectSeq(ridx, LAMBDA i : ~Known(relationships[i].m))
        errors1 == errors0 \o
            [j \in 1..Len(badidx) |->
                LET r == relationships[badidx[j]].m
                IN "Relationship from '" \o truncate_string(From(r)) \o "' to '"
                   \o truncate_string(To(r)) \o "' references non-existent class"]
        rels0 == [j \in 1..Len(okidx) |->
                    LET r == relationships[okidx[j]].m
                        t == Lower(StripOr(r, "type", "associates"))
                    IN JMap([from |-> JStr(From(r)), to |-> JStr(To(r)),
                             type |-> JStr(IF t \in CLASS_RELATIONSHIP_TYPES THEN t
                                           ELSE "associates"),
                             label |-> JStr(Slice(PyOr(Get(r, "label"), JStr("")).s,
                                                  MaxClassLabel))])]
        trimmed == Len(classes1) > MaxClasses
        classes2 == IF trimmed THEN SubSeq(classes1, 1, MaxClasses) ELSE classes1
        rels1 == IF trimmed THEN BothIn(rels0, NamesOf(classes2)) ELSE rels0
    IN Built(errors1, JMap([classes |-> JList(classes2), relationships |-> JList(rels1)]))

class_plan(p) ==
    ClassRepair(ClassEntries(ensure_list(p, "classes")), ClassNames(ensure_list(p, "classes")),
                ensure_list(p, "relationships"))

validate_class(p) == Finish(class_plan(p))

MaxParticipantId == 20

MaxId == 30

MaxName == 40

MaxSeqLabel == 60

MaxEdgeLabel == 40

MaxComponentLabel == 30

MaxActivityLabel == 50

MaxDescription == 80

\* (v or f"{prefix}{i}").strip()[:n], and f"{prefix}{i}" when that is empty.
EntityId(v, prefix, i, n) ==
    LET s == Slice(Strip(PyOr(v, JStr(prefix \o IntStr(i))).s), n)
    IN IF Len(s) = 0 THEN prefix \o IntStr(i) ELSE s

\* (d.get(key) or default)[:n]
TextOr(d, key, default, n) == Slice(PyOr(Get(d, key), JStr(default)).s, n)

IdsOf(entities) == {entities[j].m.id.s : j \in 1..Len(entities)}

\* The loop over an edge list with from, to, label and order (sequence messages,
\* activity edges, state transitions, component dependencies, deployment
\* connections), followed by the sort and the renumbering.
KeptEdges(raw, ids, idlen, lablen) ==
    LET From(e) == Slice(StripOr(e, "from", ""), idlen)
        To(e) == Slice(StripOr(e, "to", ""), idlen)
        idx == SelectSeq(DictIdx(raw),
                   LAMBDA i : From(raw[i].m) \in ids /\ To(raw[i].m) \in ids)
    IN [j \in 1..Len(idx) |->
           LET e == raw[idx[j]].m
           IN [from |-> JStr(From(e)), to |-> JStr(To(e)),
               label |-> JStr(TextOr(e, "label", "", lablen)),
               order |-> JInt(OrderOf(Get(e, "order"), idx[j] - 1))]]

\* The sort and the renumbering of the kept edges.
Sorted(kept) == [j \in 1..Len(kept) |-> JMap(SortAndRenumber(kept)[j])]

OrderedEdges(raw, ids, idlen, lablen) == Sorted(KeptEdges(raw, ids, idlen, lablen))

Named(id, name) == JMap([id |-> JStr(id), name |-> JStr(name)])

\* Participants and components take their id from id, else from name.
IdOrNameEntity(d, prefix, i, idlen) ==
    LET id == EntityId(PyOr(Get(d, "id"), Get(d, "name")), prefix, i, idlen)
    IN Named(id, TextOr(d, "name", id, MaxName))

\* Actors and use cases take their id from id alone.
IdEntity(d, prefix, i) ==
    LET id == EntityId(Get(d, "id"), prefix, i, MaxId)
    IN Named(id, TextOr(d, "name", id, MaxName))

\* The loop over participants (lines 288-295).
SeqParticipants(participants) ==
    LET idx == DictIdx(participants)
    IN [j \in 1..Len(idx) |->
           IdOrNameEntity(participants[idx[j]].m, "P", idx[j] - 1, MaxParticipantId)]

\* validate_sequence after the loop over participants; parts0 is
\* repaired_participants there.
SeqRepair(parts0, messages) ==
    LET none == Len(parts0) = 0
        errors == IF none THEN <<"No valid participants">> ELSE <<>>
        parts1 == IF none THEN <<Named("U", "User"), Named("A", "API")>> ELSE parts0
        ids == IF none THEN {"U", "A"} ELSE IdsOf(parts0)
    IN Built(errors,
             JMap([participants |-> JList(parts1),
                   messages |-> JList(OrderedEdges(messages, ids, MaxParticipantId,
                                                   MaxSeqLabel))]))

sequence_plan(p) ==
    SeqRepair(SeqParticipants(ensure_list(p, "participants")), ensure_list(p, "messages"))

validate_sequence(p) == Finish(sequence_plan(p))

\* The loop over the links of a use-case plan, with its sort and renumbering.
UsecaseLinks(raw, actor_ids, uc_ids) ==
    LET Actor(e) == Slice(StripOr(e, "actorId", ""), MaxId)
        Uc(e) == Slice(StripOr(e, "useCaseId", ""), MaxId)
        idx == SelectSeq(DictIdx(raw),
                   LAMBDA i : Actor(raw[i].m) \in actor_ids /\ Uc(raw[i].m) \in uc_ids)
        kept == [j \in 1..Len(idx) |->
                    LET e == raw[idx[j]].m
                    IN [actorId |-> JStr(Actor(e)), useCaseId |-> JStr(Uc(e)),
                        order |-> JInt(OrderOf(Get(e, "order"), idx[j] - 1))]]
        sorted == SortAndRenumber(kept)
    IN [j \in 1..Len(sorted) |-> JMap(sorted[j])]

\* The loops over includes and extends.
UsecasePairs(raw, uc_ids) ==
    LET From(e) == Slice(StripOr(e, "from", ""), MaxId)
        To(e) == Slice(StripOr(e, "to", ""), MaxId)
        idx == SelectSeq(DictIdx(raw),
                   LAMBDA i : From(raw[i].m) \in uc_ids /\ To(raw[i].m) \in uc_ids)
    IN [j \in 1..Len(idx) |->
           JMap([from |-> JStr(From(raw[idx[j]].m)), to |-> JStr(To(raw[idx[j]].m))])]

\* The loops over actors and over useCases (lines 342-360): one entity per dict entry.
IdEntities(raw, prefix) ==
    LET idx == DictIdx(raw)
    IN [j \in 1..Len(idx) |-> IdEntity(raw[idx[j]].m, prefix, idx[j] - 1)]

\* validate_usecase after the two loops; actors0 and ucs0 are repaired_actors and
\* repaired_ucs there.
UsecaseRepair(p, actors0, ucs0) ==
    LET actors1 == IF Len(actors0) = 0 THEN <<Named("a1", "User")>> ELSE actors0
        ucs1 == IF Len(ucs0) = 0 THEN <<Named("uc1", "Use Case")>> ELSE ucs0
        actor_ids == IdsOf(actors1)
        uc_ids == IdsOf(ucs1)
        boundary == Slice(StripOr(p, "systemBoundary", ""), MaxDescription)
    IN Built(<<>>,
             JMap([actors |-> JList(actors1),
                   useCases |-> JList(ucs1),
                   links |-> JList(UsecaseLinks(ensure_list(p, "links"), actor_ids, uc_ids)),
                   includes |-> JList(UsecasePairs(ensure_list(p, "includes"), uc_ids)),
                   extends |-> JList(UsecasePairs(ensure_list(p, "extends"), uc_ids)),
                   systemBoundary |-> IF Len(boundary) > 0 THEN JStr(boundary) ELSE JNull]))

usecase_plan(p) ==
    UsecaseRepair(p, IdEntities(ensure_list(p, "actors"), "a"),
                  IdEntities(ensure_list(p, "useCases"), "uc"))

validate_usecase(p) == Finish(usecase_plan(p))

ACTIVITY_NODE_TYPES == {"start", "activity", "decision", "end"}

ActivityNode(id, type, label) ==
    JMap([id |-> JStr(id), type |-> JStr(type), label |-> JStr(label)])

ActivityEntry(n, i) ==
    LET nid == EntityId(Get(n, "id"), "n", i, MaxId)
        t == Lower(StripOr(n, "type", "activity"))
        ntype == IF t \in ACTIVITY_NODE_TYPES THEN t ELSE "activity"
    IN ActivityNode(nid, ntype, TextOr(n, "label", nid, MaxActivityLabel))

StartNode == ActivityNode("start", "start", "Start")

EndNode == ActivityNode("end", "end", "End")

\* The loop over nodes (lines 429-443).
ActivityNodes(uml_nodes) ==
    LET idx == DictIdx(uml_nodes)
    IN [j \in 1..Len(idx) |-> ActivityEntry(uml_nodes[idx[j]].m, idx[j] - 1)]

\* validate_activity after the loop over nodes; nodes0 is repaired_nodes there.
ActivityRepair(nodes0, edges) ==
    LET none == Len(nodes0) = 0
        has_start == none \/ \E j \in 1..Len(nodes0) : nodes0[j].m.type.s = "start"
        has_end == none \/ \E j \in 1..Len(nodes0) : nodes0[j].m.type.s = "end"
        nodes1 == IF none
                  THEN <<StartNode, ActivityNode("a1", "activity", "Process"), EndNode>>
                  ELSE nodes0
        nodes2 == IF has_start THEN nodes1 ELSE <<StartNode>> \o nodes1
        nodes3 == IF has_end THEN nodes2 ELSE Append(nodes2, EndNode)
        node_ids == IdsOf(nodes3)
    IN Built(<<>>,
             JMap([nodes |-> JList(nodes3),
                   edges |-> JList(OrderedEdges(edges, node_ids, MaxId, MaxEdgeLabel))]))

activity_plan(p) ==
    ActivityRepair(ActivityNodes(ensure_list(p, "nodes")), ensure_list(p, "edges"))

validate_activity(p) == Finish(activity_plan(p))

StateNode(id, name, isInitial, isFinal) ==
    JMap([id |-> JStr(id), name |-> JStr(name), isInitial |-> JBool(isInitial),
          isFinal |-> JBool(isFinal)])

StateEntry(s, i) ==
    LET sid == EntityId(Get(s, "id"), "s", i, MaxId)
    IN StateNode(sid, TextOr(s, "name", sid, MaxName), Truthy(Get(s, "isInitial")),
                 Truthy(Get(s, "isFinal")))

\* The loop over states (lines 493-508).
StateNodes(states) ==
    LET idx == DictIdx(states)
    IN [j \in 1..Len(idx) |-> StateEntry(states[idx[j]].m, idx[j] - 1)]

\* validate_state after the loop over states; states0 is repaired_states there.
StateRepair(states0, transitions) ==
    LET none == Len(states0) = 0
        has_initial == none \/ \E j \in 1..Len(states0) : states0[j].m.isInitial.b
        states1 == IF none
                   THEN <<StateNode("s1", "Idle", TRUE, FALSE),
                          StateNode("s2", "Active", FALSE, FALSE)>>
                   ELSE states0
        states2 == IF has_initial THEN states1
                   ELSE [states1 EXCEPT ![1] =
                            JMap([states1[1].m EXCEPT !.isInitial = JBool(TRUE)])]
        state_ids == IdsOf(states2)
    IN Built(<<>>,
             JMap([states |-> JList(states2),
                   transitions |-> JList(OrderedEdges(transitions, state_ids, MaxId,
                                                      MaxEdgeLabel))]))

state_plan(p) ==
    StateRepair(StateNodes(ensure_list(p, "states")), ensure_list(p, "transitions"))

validate_state(p) == Finish(state_plan(p))

\* The loop over components (lines 552-559).
ComponentEntries(components) ==
    LET idx == DictIdx(components)
    IN [j \in 1..Len(idx) |-> IdOrNameEntity(components[idx[j]].m, "c", idx[j] - 1, MaxId)]

\* validate_component after the loop over components; comps0 is repaired_comps there.
ComponentRepair(comps0, dependencies) ==
    LET comps1 == IF Len(comps0) = 0 THEN <<Named("c1", "API"), Named("c2", "DB")>> ELSE comps0
        comp_ids == IdsOf(comps1)
    IN Built(<<>>,
             JMap([components |-> JList(comps1),
                   dependencies |-> JList(OrderedEdges(dependencies, comp_ids, MaxId,
                                                       MaxComponentLabel))]))

component_plan(p) ==
    ComponentRepair(ComponentEntries(ensure_list(p, "components")),
                    ensure_list(p, "dependencies"))

validate_component(p) == Finish(component_plan(p))

MaxMindLabel == 60

MaxMindNodes == 25

MindNode(id, label, parentId) == [id |-> JStr(id), label |-> JStr(label), parentId |-> parentId]

\* One node of the first loop of validate_mindtree (lines 600-611).
MindEntry(n, i) ==
    LET nid == EntityId(Get(n, "id"), "n", i, MaxId)
        parent_id == Get(n, "parentId")
    IN MindNode(nid, TextOr(n, "label", nid, MaxMindLabel),
                IF parent_id.t = "null" THEN JNull
                ELSE IF Truthy(parent_id) THEN JStr(Slice(Strip(PyStr(parent_id)), MaxId))
                ELSE JNull)

\* The loop of lines 627-632 from position k on: every node without parent other
\* than (by id) the first node is hung under the first node, until root_count
\* has come down to 1.
RECURSIVE DemoteRoots(_, _, _)
DemoteRoots(nodes, k, root_count) ==
    IF k > Len(nodes) THEN nodes
    ELSE IF nodes[k].parentId.t = "null" /\ nodes[k].id # nodes[1].id
    THEN LET moved == [nodes EXCEPT ![k].parentId = nodes[1].id]
         IN IF root_count - 1 <= 1 THEN moved ELSE DemoteRoots(moved, k + 1, root_count - 1)
    ELSE DemoteRoots(nodes, k + 1, root_count)

\* Lines 623-632.
OneRoot(nodes, root_count) ==
    IF root_count = 0 THEN [nodes EXCEPT ![1].parentId = JNull]
    ELSE IF root_count > 1 THEN DemoteRoots(nodes, 1, root_count)
    ELSE nodes

\* next((n["id"] for n in nodes if n.get("parentId") is None), nodes[0]["id"])
RootId(nodes) ==
    IF \E j \in 1..Len(nodes) : nodes[j].parentId.t = "null"
    THEN nodes[CHOOSE j \in 1..Len(nodes) :
                  /\ nodes[j].parentId.t = "null"
                  /\ \A k \in 1..(j - 1) : nodes[k].parentId.t # "null"].id
    ELSE nodes[1].id

\* Lines 636-639.
FixParents(nodes, node_ids) ==
    [j \in 1..Len(nodes) |->
        IF nodes[j].parentId.t # "null" /\ nodes[j].parentId.s \notin node_ids
        THEN [nodes[j] EXCEPT !.parentId = RootId(nodes)]
        ELSE nodes[j]]

\* The loop over nodes (lines 597-611): one repaired node per dict entry.
MindNodes(nodes) ==
    LET idx == DictIdx(nodes)
    IN [j \in 1..Len(idx) |-> MindEntry(nodes[idx[j]].m, idx[j] - 1)]

\* root_count after the loop over nodes: the dict entries whose parentId is None
\* (lines 604-606).
MindRootCount(nodes) ==
    LET idx == DictIdx(nodes)
    IN Cardinality({j \in 1..Len(idx) : Get(nodes[idx[j]].m, "parentId").t = "null"})

\* validate_mindtree after the loop over nodes; nodes0 and roots0 are
\* repaired_nodes and root_count there.
MindRepair(nodes0, roots0) ==
    LET none == Len(nodes0) = 0
        errors0 == IF none THEN <<"No valid nodes">> ELSE <<>>
        nodes1 == IF none
                  THEN <<MindNode("n0", "Central Idea", JNull),
                         MindNode("n1", "Branch", JStr("n0"))>>
                  ELSE nodes0
        node_ids == {nodes1[j].id.s : j \in 1..Len(nodes1)}
        root_count == IF none THEN 1 ELSE roots0
        nodes2 == FixParents(OneRoot(nodes1, root_count), node_ids)
        trimmed == Len(nodes2) > MaxMindNodes
        nodes3 == IF trimmed THEN SubSeq(nodes2, 1, MaxMindNodes) ELSE nodes2
        errors1 == IF trimmed THEN Append(errors0, "Trimmed nodes to 25") ELSE errors0
    IN Built(errors1, JMap([nodes |-> JList([j \in 1..Len(nodes3) |-> JMap(nodes3[j])])]))

mindtree_plan(p) ==
    MindRepair(MindNodes(ensure_list(p, "nodes")), MindRootCount(ensure_list(p, "nodes")))

validate_mindtree(p) == Finish(mindtree_plan(p))

DEPLOYMENT_NODE_TYPES == {"device", "executionEnv"}

MaxExplanation == 500

DeployNode(id, name, type, description) ==
    JMap([id |-> JStr(id), name |-> JStr(name), type |-> JStr(type),
          description |-> JStr(description)])

DeployEntry(n, i) ==
    LET nid == EntityId(Get(n, "id"), "n", i, MaxId)
        t == Lower(StripOr(n, "type", "executionEnv"))
        ntype == IF t \in DEPLOYMENT_NODE_TYPES THEN t ELSE "executionEnv"
    IN DeployNode(nid, TextOr(n, "name", nid, MaxName), ntype,
                  TextOr(n, "description", "", MaxDescription))

\* The nodes of a deployment plan as repaired (lines 659-683).
DeployNodes(p) ==
    LET nodes == ensure_list(p, "nodes")
        idx == DictIdx(nodes)
        nodes0 == [j \in 1..Len(idx) |-> DeployEntry(nodes[idx[j]].m, idx[j] - 1)]
    IN IF Len(nodes0) = 0
       THEN <<DeployNode("n1", "Client", "device", "User device"),
              DeployNode("n2", "Server", "executionEnv", "App host")>>
       ELSE nodes0

\* One artifact (lines 689-700).  first is list(node_ids)[0]: the element a set of
\* strings yields first, which the hash seed of the interpreter decides.
ArtifactEntry(a, i, node_ids, first) ==
    LET aid == EntityId(Get(a, "id"), "a", i, MaxId)
        raw == Slice(StripOr(a, "nodeId", ""), MaxId)
        node_id == IF Len(raw) > 0 /\ raw \notin node_ids THEN first ELSE raw
    IN JMap([id |-> JStr(aid), name |-> JStr(TextOr(a, "name", aid, MaxName)),
             nodeId |-> JStr(node_id),
             description |-> JStr(TextOr(a, "description", "", MaxDescription))])

\* validate_deployment after the loop over nodes; nodes is repaired_nodes there.
DeployRepair(p, nodes, first) ==
    LET node_ids == IdsOf(nodes)
        artifacts == ensure_list(p, "artifacts")
        aidx == DictIdx(artifacts)
    IN Built(<<>>,
             JMap([nodes |-> JList(nodes),
                   artifacts |-> JList([j \in 1..Len(aidx) |->
                        ArtifactEntry(artifacts[aidx[j]].m, aidx[j] - 1, node_ids, first)]),
                   connections |-> JList(OrderedEdges(ensure_list(p, "connections"),
                                                      node_ids, MaxId, MaxEdgeLabel)),
                   explanation |-> JStr(Slice(StripOr(p, "explanation", ""),
                                              MaxExplanation))]))

deployment_plan(p, first) == DeployRepair(p, DeployNodes(p), first)

validate_deployment(p, first) == Finish(deployment_plan(p, first))

\* The keys of _VALIDATORS.
VALIDATORS ==
    {"architecture", "hld", "lld", "mindtree", "class", "sequence", "usecase", "activity",
     "state", "component", "deployment"}

(***************************************************************************)
(* The exceptions of the validators.  No validator catches an exception    *)
(* except around int(order), so a coercion applied to a value of another   *)
(* type than the one the code expects ends the call with the exception.    *)
(***************************************************************************)
\* (v or default).strip(): AttributeError when v is truthy and is no str.
StripRaises(v) == Truthy(v) /\ v.t # "str"

\* (v or default)[:n]: TypeError when v is truthy and is neither a str nor a list.
SliceRaises(v) == Truthy(v) /\ v.t \notin {"str", "list"}

\* One dict entry of a loop: the keys whose value is stripped and the keys whose
\* value is sliced.
EntryRaises(d, stripped, sliced) ==
    \/ \E k \in stripped : StripRaises(Get(d, k))
    \/ \E k \in sliced : SliceRaises(Get(d, k))

\* A loop over a raw list that skips the entries that are no dict.
LoopRaises(raw, stripped, sliced) ==
    \E i \in 1..Len(raw) :
        isinstance_dict(raw[i]) /\ EntryRaises(raw[i].m, stripped, sliced)

\* (d.get("id") or d.get("name") or f"{prefix}{i}").strip() and (d.get("name") or id)[:40]
IdOrNameRaises(raw) ==
    \E i \in 1..Len(raw) :
        /\ isinstance_dict(raw[i])
        /\ \/ StripRaises(PyOr(Get(raw[i].m, "id"), Get(raw[i].m, "name")))
           \/ SliceRaises(Get(raw[i].m, "name"))

\* A loop over edges: from and to are stripped; the keys of `then` are read only
\* for an edge whose ends are both in ids.
EdgesRaise(raw, ids, idlen, thenStripped, thenSliced) ==
    \E i \in 1..Len(raw) :
        /\ isinstance_dict(raw[i])
        /\ \/ EntryRaises(raw[i].m, {"from", "to"}, {})
           \/ /\ Slice(StripOr(raw[i].m, "from", ""), idlen) \in ids
              /\ Slice(StripOr(raw[i].m, "to", ""), idlen) \in ids
              /\ EntryRaises(raw[i].m, thenStripped, thenSliced)

\* module_names when the loop over dependencies starts (lines 153-198).
LldModuleNames(modules0) == IF Len(modules0) = 0 THEN {"ExampleModule"} ELSE NamesOf(modules0)

\* class_names when the loop over relationships starts (lines 239-253).
ClassNamesKnown(classes) ==
    IF Len(DictIdx(classes)) = 0 THEN {"Example"} ELSE ClassNames(classes)

\* Whether _VALIDATORS[kind](p) ends with an exception: per validator, its loops in
\* the order of the code.  str(parent_id) of a mind map accepts every value.
ValidatorRaises(kind, p) ==
    CASE kind = "architecture" ->
        LoopRaises(ensure_list(p, "components"), {"name", "type"}, {})
      [] kind = "hld" ->
        \/ \E key \in HLD_LAYERS :
              /\ isinstance_list(Get(ensure_dict(p, "layers"), key))
              /\ LoopRaises(Get(ensure_dict(p, "layers"), key).l, {"name", "type"}, {"tech"})
        \/ \E i \in 1..Len(ensure_list(p, "flows")) :
              LET f == ensure_list(p, "flows")[i]
              IN /\ isinstance_dict(f)
                 /\ \/ EntryRaises(f.m, {"from", "to"}, {})
                    \/ /\ StripOr(f.m, "from", "") \in HLD_LAYERS
                       /\ StripOr(f.m, "to", "") \in HLD_LAYERS
                       /\ StripRaises(Get(f.m, "label"))
      [] kind = "lld" ->
        \/ LoopRaises(ensure_list(p, "modules"), {"name"}, {})
        \/ \E i \in 1..Len(ensure_list(p, "modules")) :
              /\ isinstance_dict(ensure_list(p, "modules")[i])
              /\ \/ LoopRaises(ensure_list(ensure_list(p, "modules")[i].m, "classes"), {"name"}, {})
                 \/ LoopRaises(ensure_list(ensure_list(p, "modules")[i].m, "interfaces"),
                               {"name"}, {})
        \/ EdgesRaise(ensure_list(p, "dependencies"),
                      LldModuleNames(LldModules(ensure_list(p, "modules"))), MaxModuleName,
                      {"type"}, {"label"})
      [] kind = "mindtree" ->
        LoopRaises(ensure_list(p, "nodes"), {"id"}, {"label"})
      [] kind = "class" ->
        \/ LoopRaises(ensure_list(p, "classes"), {"name"}, {})
        \/ \E i \in 1..Len(ensure_list(p, "relationships")) :
              LET r == ensure_list(p, "relationships")[i]
              IN /\ isinstance_dict(r)
                 /\ \/ EntryRaises(r.m, {"from", "to"}, {})
                    \/ /\ StripOr(r.m, "from", "") \in ClassNamesKnown(ensure_list(p, "classes"))
                       /\ StripOr(r.m, "to", "") \in ClassNamesKnown(ensure_list(p, "classes"))
                       /\ EntryRaises(r.m, {"type"}, {"label"})
      [] kind = "sequence" ->
        \/ IdOrNameRaises(ensure_list(p, "participants"))
        \/ EdgesRaise(ensure_list(p, "messages"),
                      IdsOf(SeqRepair(SeqParticipants(ensure_list(p, "participants")), <<>>)
                                .repaired.m.participants.l),
                      MaxParticipantId, {}, {"label"})
      [] kind = "usecase" ->
        \/ LoopRaises(ensure_list(p, "actors"), {"id"}, {"name"})
        \/ LoopRaises(ensure_list(p, "useCases"), {"id"}, {"name"})
        \/ LoopRaises(ensure_list(p, "links"), {"actorId", "useCaseId"}, {})
        \/ LoopRaises(ensure_list(p, "includes"), {"from", "to"}, {})
        \/ LoopRaises(ensure_list(p, "extends"), {"from", "to"}, {})
        \/ StripRaises(Get(p, "systemBoundary"))
      [] kind = "activity" ->
        \/ LoopRaises(ensure_list(p, "nodes"), {"id", "type"}, {"label"})
        \/ EdgesRaise(ensure_list(p, "edges"),
                      IdsOf(ActivityRepair(ActivityNodes(ensure_list(p, "nodes")), <<>>)
                                .repaired.m.nodes.l),
                      MaxId, {}, {"label"})
      [] kind = "state" ->
        \/ LoopRaises(ensure_list(p, "states"), {"id"}, {"name"})
        \/ EdgesRaise(ensure_list(p, "transitions"),
                      IdsOf(StateRepair(StateNodes(ensure_list(p, "states")), <<>>)
                                .repaired.m.states.l),
                      MaxId, {}, {"label"})
      [] kind = "component" ->
        \/ IdOrNameRaises(ensure_list(p, "components"))
        \/ EdgesRaise(ensure_list(p, "dependencies"),
                      IdsOf(ComponentRepair(ComponentEntries(ensure_list(p, "components")), <<>>)
                                .repaired.m.components.l),
                      MaxId, {}, {"label"})
      [] kind = "deployment" ->
        \/ LoopRaises(ensure_list(p, "nodes"), {"id", "type"}, {"name", "description"})
        \/ LoopRaises(ensure_list(p, "artifacts"), {"id", "nodeId"}, {"name", "description"})
        \/ EdgesRaise(ensure_list(p, "connections"), IdsOf(DeployNodes(p)), MaxId, {}, {"label"})
        \/ StripRaises(Get(p, "explanation"))

\* Whether validate_and_repair(kind, v), and with it get_valid_plan(kind, v),
\* ends with an exception: neither function has a try block.
Raises(kind, v) == isinstance_dict(v) /\ kind \in VALIDATORS /\ ValidatorRaises(kind, v.m)

\* What the validator of a kind has assembled at its return, for a plan that is a
\* dict (p is the dict).
KindPlan(kind, p, first) ==
    CASE kind = "architecture" -> architecture_plan(p)
      [] kind = "hld" -> hld_plan(p)
      [] kind = "lld" -> lld_plan(p)
      [] kind = "mindtree" -> mindtree_plan(p)
      [] kind = "class" -> class_plan(p)
      [] kind = "sequence" -> sequence_plan(p)
      [] kind = "usecase" -> usecase_plan(p)
      [] kind = "activity" -> activity_plan(p)
      [] kind = "state" -> state_plan(p)
      [] kind = "component" -> component_plan(p)
      [] kind = "deployment" -> deployment_plan(p, first)

\* _VALIDATORS[kind](p)
Validator(kind, p, first) ==
    CASE kind = "architecture" -> validate_architecture(p)
      [] kind = "hld" -> validate_hld(p)
      [] kind = "lld" -> validate_lld(p)
      [] kind = "mindtree" -> validate_mindtree(p)
      [] kind = "class" -> validate_class(p)
      [] kind = "sequence" -> validate_sequence(p)
      [] kind = "usecase" -> validate_usecase(p)
      [] kind = "activity" -> validate_activity(p)
      [] kind = "state" -> validate_state(p)
      [] kind = "component" -> validate_component(p)
      [] kind = "deployment" -> validate_deployment(p, first)

validate_and_repair(kind, v, first) ==
    IF ~isinstance_dict(v)
    THEN ValidationResult(FALSE, <<"Plan is not a JSON object">>, JNull)
    ELSE IF kind \notin VALIDATORS
    THEN ValidationResult(TRUE, <<>>, JNull)
    ELSE Validator(kind, v.m, first)

\* get_valid_plan after result = validate_and_repair(diagram_type, plan) (lines 765-776).
ValidPlan(r, v) ==
    IF r.is_valid THEN v
    ELSE IF Truthy(r.repaired) THEN r.repaired
    ELSE v

get_valid_plan(kind, v, first) == ValidPlan(validate_and_repair(kind, v, first), v)

\* The choices list(node_ids)[0] can make in a run of a validator: for a
\* deployment plan any id of its nodes; no other validator reads a set's order.
FirstOfSet(kind, v) ==
    IF kind = "deployment" /\ isinstance_dict(v) THEN IdsOf(DeployNodes(v.m)) ELSE {""}

(***************************************************************************)
(* The raw plans the model checks, per kind.  Lists of entities and of     *)
(* edges are drawn from a few entries each that between them carry every   *)
(* shape the validators distinguish; a tail of filler entities brings a    *)
(* list over the maximum its validator enforces.                           *)
(***************************************************************************)
MaxEntities == 2

MaxEdges == 2

Seqs(S, n) == UNION {[1..k -> S] : k \in 0..n}

RECURSIVE Rep(_, _)
Rep(c, n) == IF n = 0 THEN "" ELSE c \o Rep(c, n - 1)

\* A name one character longer than n.
LongName(n) == Rep("a", n + 1)

Edge(from, to) == JMap([from |-> JStr(from), to |-> JStr(to)])

EdgeO(from, to, order) == JMap([from |-> JStr(from), to |-> JStr(to), order |-> order])

WithId(id) == JMap([id |-> JStr(id)])

Junk == JStr("junk")

\* Values that are no plan at all, an empty plan, and a plan whose collection is
\* not a list.
Malformed == {JNull, JStr("plan"), JList(<<>>), JInt(3)}

Plan2(k1, l1, k2, l2) == JMap((k1 :> JList(l1)) @@ (k2 :> JList(l2)))

ArchRaw ==
    {Junk, ArchComp("API", "server"), JMap(EmptyDict),
     JMap([name |-> JStr(" Redis Cache "), type |-> JStr("Bogus")])}

ArchFill == [j \in 1..MaxArchComponents |-> ArchComp("Svc" \o IntStr(j), "Server")]

ArchPlans ==
    {JMap([components |-> JList(l \o tail)]) :
        l \in Seqs(ArchRaw, MaxEntities + 1), tail \in {<<>>, ArchFill}}
    \cup {JMap(EmptyDict), JMap([components |-> JStr("none")]),
          JMap([components |-> JList(<<ArchComp(LongName(MaxArchName), "cache"), Junk>>)])}

HldRaw == {Junk, JMap(HldItem(" Web ", "WebApp", "React")), JMap(EmptyDict)}

HldFlows ==
    {Junk, Edge("data", "cloud"),
     JMap([from |-> JStr(" data "), to |-> JStr("external"), label |-> JStr(" reads ")])}

HldPlans ==
    {JMap([layers |-> JMap(layers), flows |-> JList(f)]) :
        layers \in {[presentation |-> JList(l)] : l \in Seqs(HldRaw, MaxEntities)}
                   \cup {[data |-> JList(l), business |-> Junk, cloud |-> JList(l)] :
                            l \in Seqs(HldRaw, MaxEntities)},
        f \in Seqs(HldFlows, MaxEdges)}
    \cup {JMap(EmptyDict), JMap([layers |-> Junk]), JMap([layers |-> JMap(EmptyDict)])}

LldCore ==
    JMap([name |-> JStr(" Core "),
          classes |-> JList(<<Junk, JMap([name |-> JStr("User"),
                                           attributes |-> JList(<<JStr("id"), JInt(7)>>),
                                           methods |-> Junk])>>),
          interfaces |-> JList(<<JMap(EmptyDict)>>)])

LldRaw == {Junk, LldCore, JMap([name |-> JStr(LongName(MaxModuleName))])}

LldDeps ==
    {Junk, Edge("Core", LongName(MaxModuleName)), Edge("Core", "Ghost"),
     JMap([from |-> JStr("Mod" \o IntStr(MaxModules)), to |-> JStr("Core"),
           type |-> JStr("Extends")])}

LldFill == [j \in 1..MaxModules |-> JMap([name |-> JStr("Mod" \o IntStr(j))])]

LldPlans ==
    {Plan2("modules", l \o tail, "dependencies", d) :
        l \in Seqs(LldRaw, MaxEntities), tail \in {<<>>, LldFill}, d \in Seqs(LldDeps, MaxEdges)}
    \cup {JMap(EmptyDict), JMap([modules |-> Junk]),
          Plan2("modules", <<Junk>>, "dependencies",
                <<Edge("ExampleModule", "ExampleModule")>>),
          Plan2("modules", <<JMap(EmptyDict)>>, "dependencies", <<Edge("Module_0", "Module_0")>>)}

ClassRaw ==
    {Junk, JMap([name |-> JStr(" Order "), attributes |-> JList(<<JStr("id"), JNull>>)]),
     JMap([name |-> JStr(LongName(MaxClassName))])}

ClassRels ==
    {Junk, Edge("Order", LongName(MaxClassName)), Edge("Order", "Ghost"),
     JMap([from |-> JStr(" K" \o IntStr(MaxClasses)), to |-> JStr("Order"),
           type |-> JStr("Extends")])}

ClassFill == [j \in 1..MaxClasses |-> JMap([name |-> JStr("K" \o IntStr(j))])]

ClassPlans ==
    {Plan2("classes", l \o tail, "relationships", r) :
        l \in Seqs(ClassRaw, MaxEntities), tail \in {<<>>, ClassFill},
        r \in Seqs(ClassRels, MaxEdges)}
    \cup {JMap(EmptyDict), JMap([classes |-> Junk]),
          Plan2("classes", <<Junk>>, "relationships", <<Edge("Example", "Example")>>),
          Plan2("classes", <<JMap(EmptyDict)>>, "relationships", <<Edge("Class0", "Class0")>>)}

SeqRaw == {Junk, WithId("A"), WithId("B")}

SeqMsgs ==
    {EdgeO("A", "B", JInt(5)), EdgeO("B", "A", JInt(1)), Edge("A", "Ghost"),
     EdgeO("U", "A", JStr("first")), EdgeO("A", "U", JInt(0))}

SeqPlans ==
    {Plan2("participants", l, "messages", m) :
        l \in Seqs(SeqRaw, MaxEntities), m \in Seqs(SeqMsgs, MaxEdges)}
    \cup {JMap(EmptyDict), JMap([participants |-> Junk]),
          Plan2("participants",
                <<JMap(EmptyDict), WithId(LongName(MaxParticipantId)),
                  JMap([name |-> JStr(" B ")])>>,
                "messages",
                <<Junk, EdgeO(LongName(MaxParticipantId), "P0", JStr(" 1 ")), Edge("P0", "B")>>),
          Plan2("participants", <<>>, "messages",
                <<EdgeO("U", "A", JInt(3)), Junk, EdgeO("A", "A", JNull),
                  EdgeO("A", "U", JInt(-2))>>)}

UcActors == {<<>>, <<Junk, WithId("user")>>, <<WithId("user"), JMap([name |-> JStr("Admin")])>>}

UcCases ==
    {<<>>, <<WithId("login")>>,
     <<JMap([id |-> JStr(" "), name |-> JStr("Pay")]), WithId("login"), Junk>>}

UcLinks ==
    {Junk, JMap([actorId |-> JStr("user"), useCaseId |-> JStr("login"), order |-> JInt(2)]),
     JMap([actorId |-> JStr("a1"), useCaseId |-> JStr("uc1"), order |-> JInt(2)]),
     JMap([actorId |-> JStr("a1"), useCaseId |-> JStr("uc0")]),
     JMap([actorId |-> JStr("ghost"), useCaseId |-> JStr("login"), order |-> JInt(1)])}

UcPairs == {<<>>, <<Junk, Edge("login", "uc0")>>, <<Edge("login", "ghost")>>}

UsecasePlans ==
    {JMap([actors |-> JList(a), useCases |-> JList(u), links |-> JList(k),
           includes |-> JList(i), extends |-> JList(i)]) :
        a \in UcActors, u \in UcCases, k \in Seqs(UcLinks, MaxEdges), i \in UcPairs}
    \cup {JMap(EmptyDict), JMap([actors |-> Junk, systemBoundary |-> JStr(" Shop ")])}

ActRaw ==
    {JMap([id |-> JStr("start"), label |-> JStr("Begin")]),
     JMap([id |-> JStr("go"), type |-> JStr("Start")]),
     JMap([type |-> JStr("end")])}

ActEdges ==
    {EdgeO("start", "go", JInt(0)), EdgeO("go", "end", JInt(-3)),
     EdgeO("start", "end", JStr("2")), Edge("go", "ghost")}

ActivityPlans ==
    {Plan2("nodes", l, "edges", e) :
        l \in Seqs(ActRaw, MaxEntities), e \in Seqs(ActEdges, MaxEdges)}
    \cup {JMap(EmptyDict), JMap([nodes |-> Junk]),
          Plan2("nodes", <<Junk, WithId("end")>>, "edges", <<Junk, Edge("start", "end")>>)}

StateRaw ==
    {WithId("idle"), JMap([id |-> JStr("run"), isInitial |-> JBool(TRUE)]),
     JMap([name |-> JStr("Done"), isFinal |-> JInt(1)])}

StateTrans ==
    {EdgeO("idle", "run", JInt(7)), EdgeO("run", "idle", JInt(7)),
     EdgeO("s1", "s2", JList(<<>>)), Edge("run", "ghost"), EdgeO("idle", "idle", JBool(TRUE))}

StatePlans ==
    {Plan2("states", l, "transitions", e) :
        l \in Seqs(StateRaw, MaxEntities), e \in Seqs(StateTrans, MaxEdges)}
    \cup {JMap(EmptyDict), JMap([states |-> Junk]),
          Plan2("states", <<Junk, WithId("idle")>>, "transitions",
                <<Junk, Edge("idle", "idle")>>)}

CompRaw == {WithId("api"), JMap([name |-> JStr("db")]), JMap(EmptyDict)}

CompDeps ==
    {EdgeO("api", "db", JInt(3)), EdgeO("db", "api", JMap(EmptyDict)),
     EdgeO("c1", "c2", JInt(2)), Edge("api", "ghost"), EdgeO("api", "api", JStr("-1"))}

ComponentPlans ==
    {Plan2("components", l, "dependencies", e) :
        l \in Seqs(CompRaw, MaxEntities), e \in Seqs(CompDeps, MaxEdges)}
    \cup {JMap(EmptyDict), JMap([components |-> Junk]),
          Plan2("components", <<Junk, WithId("api")>>, "dependencies",
                <<Junk, Edge("api", "api")>>)}

MindRaw ==
    {Junk, WithId("root"), JMap([id |-> JStr("x"), parentId |-> JStr("missing")]),
     JMap([id |-> JStr("y"), parentId |-> JStr("")]),
     JMap([id |-> JStr("z"), parentId |-> JStr("z")]),
     JMap([id |-> JStr("x"), parentId |-> JStr("y")]),
     JMap([id |-> JStr("y"), parentId |-> JStr("x")]),
     JMap([id |-> JStr("w"), parentId |-> JStr("f" \o IntStr(MaxMindNodes))])}

\* A chain of filler nodes f1 <- f2 <- ... under the node "root".
MindFill ==
    [j \in 1..MaxMindNodes |->
        JMap([id |-> JStr("f" \o IntStr(j)),
              parentId |-> JStr(IF j = 1 THEN "root" ELSE "f" \o IntStr(j - 1))])]

MindPlans ==
    {JMap([nodes |-> JList(l \o tail)]) :
        l \in Seqs(MindRaw, MaxEntities + 1), tail \in {<<>>, MindFill}}
    \cup {JMap(EmptyDict), JMap([nodes |-> Junk])}

DeployRaw == {WithId("web"), JMap([id |-> JStr("db"), type |-> JStr("Device")]), JMap(EmptyDict)}

DeployArtifacts ==
    {<<>>, <<Junk, JMap([id |-> JStr("app"), nodeId |-> JStr("web")])>>,
     <<JMap([nodeId |-> JStr("ghost")]), JMap(EmptyDict)>>}

DeployConns ==
    {EdgeO("web", "db", JInt(9)), EdgeO("db", "web", JInt(4)),
     EdgeO("n1", "n2", JNull), Edge("web", "ghost")}

DeploymentPlans ==
    {JMap([nodes |-> JList(l), artifacts |-> JList(a), connections |-> JList(e)]) :
        l \in Seqs(DeployRaw, MaxEntities), a \in DeployArtifacts,
        e \in Seqs(DeployConns, MaxEdges)}
    \cup {JMap(EmptyDict), JMap([nodes |-> Junk, explanation |-> JStr(" two hosts ")]),
          Plan2("nodes", <<Junk, WithId("web")>>, "connections", <<Junk, Edge("web", "web")>>)}

(***************************************************************************)
(* Plans with a value of another JSON type where the code expects a        *)
(* string: numbers, booleans, lists and maps, truthy and falsy.  A         *)
(* non-empty list is not drawn for a value the code slices: its slice is a *)
(* list again.                                                             *)
(***************************************************************************)
StripValues ==
    {JInt(5), JInt(0), JBool(TRUE), JList(<<Junk>>), JMap([k |-> Junk]), JMap(EmptyDict)}

SliceValues == StripValues \ {JList(<<Junk>>)}

Field(k, v) == JMap(k :> v)

With(e, k, v) == JMap((k :> v) @@ e.m)

\* The plans whose first list is <<With(e, k, v)>> for the stripped keys and the
\* sliced keys of the entry e, beside a second list.
MistypedEntries(k1, e, stripped, sliced, k2, l2) ==
    {Plan2(k1, <<With(e, k, v)>>, k2, l2) : k \in stripped, v \in StripValues}
    \cup {Plan2(k1, <<With(e, k, v)>>, k2, l2) : k \in sliced, v \in SliceValues}

\* The same for the second list, beside a first list.
MistypedEdges(k1, l1, k2, e, stripped, sliced) ==
    {Plan2(k1, l1, k2, <<With(e, k, v)>>) : k \in stripped, v \in StripValues}
    \cup {Plan2(k1, l1, k2, <<With(e, k, v)>>) : k \in sliced, v \in SliceValues}

ArchMistyped ==
    MistypedEntries("components", ArchComp("API", "server"), {"name", "type"}, {},
                    "flows", <<>>)

HldMistyped ==
    {JMap([layers |-> JMap([data |-> JList(<<With(JMap(HldItem("Db", "database", "pg")),
                                                 k, v)>>)])]) :
        k \in {"name", "type"}, v \in StripValues}
    \cup {JMap([layers |-> JMap([data |-> JList(<<Field("tech", v)>>)])]) : v \in SliceValues}
    \cup MistypedEdges("x", <<>>, "flows", Edge("data", "data"), {"from", "label"}, {})
    \cup MistypedEdges("x", <<>>, "flows", Edge("data", "cloud"), {"label"}, {})

LldMistyped ==
    MistypedEntries("modules", LldCore, {"name"}, {}, "dependencies", <<>>)
    \cup {Plan2("modules", <<JMap([name |-> JStr("Core"), classes |-> JList(<<Field("name", v)>>),
                                   interfaces |-> JList(<<Field("name", w)>>)])>>,
                "dependencies", <<>>) :
            v \in {JInt(5), JStr("User")}, w \in {JBool(TRUE), JStr("Repo")}}
    \cup MistypedEdges("modules", <<>>, "dependencies", Edge("ExampleModule", "ExampleModule"),
                       {"to", "type"}, {"label"})
    \cup MistypedEdges("modules", <<>>, "dependencies", Edge("ExampleModule", "Ghost"),
                       {"type"}, {"label"})

ClassMistyped ==
    MistypedEntries("classes", JMap([name |-> JStr("Order")]), {"name"}, {},
                    "relationships", <<>>)
    \cup MistypedEdges("classes", <<>>, "relationships", Edge("Example", "Example"),
                       {"from", "type"}, {"label"})
    \cup MistypedEdges("classes", <<>>, "relationships", Edge("Example", "Ghost"),
                       {"type"}, {"label"})

SeqMistyped ==
    MistypedEntries("participants", WithId("A"), {"id"}, {"name"}, "messages", <<>>)
    \cup MistypedEntries("participants", JMap(EmptyDict), {"name"}, {}, "messages", <<>>)
    \cup MistypedEdges("participants", <<>>, "messages", Edge("U", "A"), {"from"}, {"label"})
    \cup MistypedEdges("participants", <<>>, "messages", Edge("U", "Ghost"), {}, {"label"})

UsecaseMistyped ==
    MistypedEntries("actors", WithId("user"), {"id"}, {"name"}, "useCases", <<>>)
    \cup MistypedEdges("actors", <<>>, "useCases", WithId("login"), {"id"}, {"name"})
    \cup MistypedEdges("actors", <<>>, "links", JMap(EmptyDict), {"actorId", "useCaseId"}, {})
    \cup MistypedEdges("actors", <<>>, "includes", JMap(EmptyDict), {"from"}, {})
    \cup MistypedEdges("actors", <<>>, "extends", JMap(EmptyDict), {"to"}, {})
    \cup {Field("systemBoundary", v) : v \in StripValues}

ActivityMistyped ==
    MistypedEntries("nodes", WithId("go"), {"id", "type"}, {"label"}, "edges", <<>>)
    \cup MistypedEdges("nodes", <<>>, "edges", Edge("start", "end"), {"to"}, {"label"})
    \cup MistypedEdges("nodes", <<>>, "edges", Edge("start", "ghost"), {}, {"label"})

StateMistyped ==
    MistypedEntries("states", WithId("idle"), {"id"}, {"name"}, "transitions", <<>>)
    \cup MistypedEdges("states", <<>>, "transitions", Edge("s1", "s2"), {"from"}, {"label"})
    \cup MistypedEdges("states", <<>>, "transitions", Edge("s1", "ghost"), {}, {"label"})

ComponentMistyped ==
    MistypedEntries("components", WithId("api"), {"id"}, {"name"}, "dependencies", <<>>)
    \cup MistypedEntries("components", JMap(EmptyDict), {"name"}, {}, "dependencies", <<>>)
    \cup MistypedEdges("components", <<>>, "dependencies", Edge("c1", "c2"), {"to"}, {"label"})
    \cup MistypedEdges("components", <<>>, "dependencies", Edge("c1", "ghost"), {}, {"label"})

\* str(parentId) is modelled for scalars only.
MindMistyped ==
    MistypedEntries("nodes", WithId("root"), {"id"}, {"label"}, "edges", <<>>)
    \cup {JMap([nodes |-> JList(<<WithId("root"), With(WithId("x"), "parentId", v)>>)]) :
            v \in {JInt(5), JInt(0), JBool(TRUE), JBool(FALSE)}}

DeployMistyped ==
    MistypedEntries("nodes", WithId("web"), {"id", "type"}, {"name", "description"},
                    "artifacts", <<>>)
    \cup MistypedEdges("nodes", <<>>, "artifacts", WithId("app"), {"id", "nodeId"},
                       {"name", "description"})
    \cup MistypedEdges("nodes", <<>>, "connections", Edge("n1", "n2"), {"from"}, {"label"})
    \cup MistypedEdges("nodes", <<>>, "connections", Edge("n1", "ghost"), {}, {"label"})
    \cup {Field("explanation", v) : v \in StripValues}

\* The kinds flowchart and chat have no validator; any dict passes.
FlowchartPlans ==
    {JMap(EmptyDict), Plan2("nodes", <<Junk>>, "edges", <<Edge("a", "ghost")>>)}

\* DiagramType, and the kind lld that has a validator.
KINDS == VALIDATORS \cup {"flowchart", "chat"}

RawPlans(kind) ==
    Malformed \cup
    CASE kind = "architecture" -> ArchPlans \cup ArchMistyped
      [] kind = "hld" -> HldPlans \cup HldMistyped
      [] kind = "lld" -> LldPlans \cup LldMistyped
      [] kind = "mindtree" -> MindPlans \cup MindMistyped
      [] kind = "class" -> ClassPlans \cup ClassMistyped
      [] kind = "sequence" -> SeqPlans \cup SeqMistyped
      [] kind = "usecase" -> UsecasePlans \cup UsecaseMistyped
      [] kind = "activity" -> ActivityPlans \cup ActivityMistyped
      [] kind = "state" -> StatePlans \cup StateMistyped
      [] kind = "component" -> ComponentPlans \cup ComponentMistyped
      [] kind = "deployment" -> DeploymentPlans \cup DeployMistyped
      [] OTHER -> FlowchartPlans

(***************************************************************************)
(* The state machine: a proposed plan is validated; a repaired plan is     *)
(* validated again; get_valid_plan turns a proposed plan into the plan the *)
(* renderers receive.                                                      *)
(***************************************************************************)
NoResult == ValidationResult(FALSE, <<>>, JNull)

\* The memory while no call is followed dict by dict.
FrameParked ==
    heap = <<>> /\ refs_in = <<>> /\ refs_out = <<>> /\ frame_op = "none" /\ frame_pc = "parked"

\* The variables of a call of validate_and_retry while no such call runs.
RetryParked == caller = "none" /\ llm = FALSE /\ asked = 0 /\ outcome = "none"

\* The variables of a mind-map render while nothing is rendered.
TreeParked ==
    /\ tree_plan = JNull /\ root_i = 0 /\ stack = <<>> /\ emitted = <<>>
    /\ tree_pc = "parked"

\* The cache while no request is served.
CacheParked ==
    /\ cache = {} /\ cache_order = <<>> /\ recency = <<>>
    /\ evicted = "none" /\ lru_then = "none"

\* The usage counter while no request is made.
UsageParked == db_count = 0 /\ session = <<>> /\ granted = 0

\* The subscription while no payment is under way.
PayParked ==
    /\ sub_status = "none" /\ user_plan = "free" /\ payments = 0
    /\ verify = <<>> /\ webhook = <<>>

AppParked == TreeParked /\ CacheParked /\ UsageParked /\ PayParked

\* The variables of a render while the validators or the sanitizer run.
RenderParked ==
    render_kind = "none" /\ render_plan = JNull /\ render_out = <<>> /\ render_pc = "parked"

\* The variables of the label sanitizer while the validators run.
LabelParked ==
    /\ label_site = "none"
    /\ label_text = "" /\ label_once = "" /\ label_twice = "" /\ label_pc = "parked"

Init ==
    /\ diagram_type \in KINDS
    /\ plan \in RawPlans(diagram_type)
    /\ pc = "proposed"
    /\ result = NoResult
    /\ built = JNull
    /\ recheck = NoResult
    /\ valid_plan = JNull
    /\ LabelParked /\ RenderParked /\ RetryParked /\ FrameParked /\ AppParked

\* result = validate_and_repair(diagram_type, plan)
ValidateAndRepair ==
    /\ pc = "proposed"
    /\ IF Raises(diagram_type, plan)
       THEN pc' = "raised" /\ UNCHANGED <<result, built>>
       ELSE /\ \E first \in FirstOfSet(diagram_type, plan) :
                 /\ result' = validate_and_repair(diagram_type, plan, first)
                 /\ built' = IF isinstance_dict(plan) /\ diagram_type \in VALIDATORS
                             THEN KindPlan(diagram_type, plan.m, first).repaired
                             ELSE JNull
            /\ pc' = "validated"
    /\ UNCHANGED <<diagram_type, plan, recheck, valid_plan>>
    /\ UNCHANGED <<label_vars, render_vars, retry_vars, frame_vars, app_vars>>

\* validate_and_repair(diagram_type, r) of a repaired plan r that was returned.
Revalidate ==
    /\ pc = "validated"
    /\ result.repaired # JNull
    /\ \E first \in FirstOfSet(diagram_type, result.repaired) :
          recheck' = validate_and_repair(diagram_type, result.repaired, first)
    /\ pc' = "revalidated"
    /\ UNCHANGED <<diagram_type, plan, result, built, valid_plan>>
    /\ UNCHANGED <<label_vars, render_vars, retry_vars, frame_vars, app_vars>>

\* valid_plan = get_valid_plan(diagram_type, plan)
GetValidPlan ==
    /\ pc = "proposed"
    /\ IF Raises(diagram_type, plan)
       THEN pc' = "raised" /\ UNCHANGED valid_plan
       ELSE /\ \E first \in FirstOfSet(diagram_type, plan) :
                 valid_plan' = get_valid_plan(diagram_type, plan, first)
            /\ pc' = "canonical"
    /\ UNCHANGED <<diagram_type, plan, result, built, recheck>>
    /\ UNCHANGED <<label_vars, render_vars, retry_vars, frame_vars, app_vars>>

\* validate_and_repair(diagram_type, valid_plan) of the plan get_valid_plan returned.
ValidateValidPlan ==
    /\ pc = "canonical"
    /\ IF Raises(diagram_type, valid_plan)
       THEN pc' = "raised" /\ UNCHANGED recheck
       ELSE /\ \E first \in FirstOfSet(diagram_type, valid_plan) :
                 recheck' = validate_and_repair(diagram_type, valid_plan, first)
            /\ pc' = "rechecked"
    /\ UNCHANGED <<diagram_type, plan, result, built, valid_plan>>
    /\ UNCHANGED <<label_vars, render_vars, retry_vars, frame_vars, app_vars>>

Next == ValidateAndRepair \/ Revalidate \/ GetValidPlan \/ ValidateValidPlan

Spec == Init /\ [][Next]_vars

(***************************************************************************)
(* Properties.                                                             *)
(***************************************************************************)
\* result holds what validate_and_repair(diagram_type, plan) returned.
Returned == pc \in {"validated", "revalidated"}

Repaired == result.repaired

HasRepaired == Returned /\ Repaired # JNull

\* The list under a key of a plan a validator built.
ListOf(r, key) == r.m[key].l

\* The values of a field over the entries of a list of a built plan.
FieldValues(r, key, field) == {ListOf(r, key)[j].m[field].s : j \in 1..Len(ListOf(r, key))}

\* Every entry of the list edges names, in field, an entity of the list entities.
Resolves(r, edges, field, entities, idfield) ==
    \A j \in 1..Len(ListOf(r, edges)) :
        ListOf(r, edges)[j].m[field].s \in FieldValues(r, entities, idfield)

BothResolve(r, edges, entities, idfield) ==
    Resolves(r, edges, "from", entities, idfield) /\ Resolves(r, edges, "to", entities, idfield)

ParentsResolve(r) ==
    \A j \in 1..Len(ListOf(r, "nodes")) :
        LET parent == ListOf(r, "nodes")[j].m.parentId
        IN parent # JNull => parent.s \in FieldValues(r, "nodes", "id")

\* No reference of a plan of the kind is dangling.
NoDangling(kind, r) ==
    CASE kind = "class" -> BothResolve(r, "relationships", "classes", "name")
      [] kind = "lld" -> BothResolve(r, "dependencies", "modules", "name")
      [] kind = "sequence" -> BothResolve(r, "messages", "participants", "id")
      [] kind = "usecase" ->
            /\ Resolves(r, "links", "actorId", "actors", "id")
            /\ Resolves(r, "links", "useCaseId", "useCases", "id")
            /\ BothResolve(r, "includes", "useCases", "id")
            /\ BothResolve(r, "extends", "useCases", "id")
      [] kind = "activity" -> BothResolve(r, "edges", "nodes", "id")
      [] kind = "state" -> BothResolve(r, "transitions", "states", "id")
      [] kind = "component" -> BothResolve(r, "dependencies", "components", "id")
      [] kind = "deployment" -> BothResolve(r, "connections", "nodes", "id")
      [] kind = "mindtree" -> ParentsResolve(r)
      [] OTHER -> TRUE

\* The collections of entities with an id, per kind.
IdCollections(kind) ==
    CASE kind = "sequence" -> {"participants"}
      [] kind = "usecase" -> {"actors", "useCases"}
      [] kind = "activity" -> {"nodes"}
      [] kind = "state" -> {"states"}
      [] kind = "component" -> {"components"}
      [] kind = "deployment" -> {"nodes"}
      [] kind = "mindtree" -> {"nodes"}
      [] OTHER -> {}

DistinctIds(r, key) ==
    \A j, k \in 1..Len(ListOf(r, key)) :
        j # k => ListOf(r, key)[j].m.id # ListOf(r, key)[k].m.id

\* The collection that carries an order field, per kind.
OrderKinds == {"sequence", "usecase", "activity", "state", "component", "deployment"}

OrderedKey(kind) ==
    CASE kind = "sequence" -> "messages"
      [] kind = "usecase" -> "links"
      [] kind = "activity" -> "edges"
      [] kind = "state" -> "transitions"
      [] kind = "component" -> "dependencies"
      [] kind = "deployment" -> "connections"

OrdersAreOneToN(r, key) ==
    \A j \in 1..Len(ListOf(r, key)) : ListOf(r, key)[j].m.order = JInt(j)

\* The raw plan needed no repair: every list the validator built has as many
\* entries as the raw list under the same key, all of them dicts (nothing
\* dropped, truncated or synthesized), no reference of the raw plan dangles,
\* and the raw order values are what the validator assigns.
ZeroRepairs ==
    built # JNull =>
        /\ \A key \in DOMAIN built.m :
              isinstance_list(built.m[key]) =>
                  /\ Len(ListOf(built, key)) = Len(ensure_list(plan.m, key))
                  /\ \A j \in 1..Len(ensure_list(plan.m, key)) :
                        isinstance_dict(ensure_list(plan.m, key)[j])
        /\ diagram_type \in OrderKinds =>
              \A j \in 1..Len(ensure_list(plan.m, OrderedKey(diagram_type))) :
                  LET e == ensure_list(plan.m, OrderedKey(diagram_type))[j]
                  IN isinstance_dict(e) => Get(e.m, "order") = JInt(j)

\* C1: validate_and_repair returns is_valid = false together with repaired = null
\* if and only if the raw plan is not a map.
C1_HardFailureIffNotMap ==
    Returned => ((~result.is_valid /\ Repaired = JNull) <=> ~isinstance_dict(plan))

\* C2: for a raw plan that is a map, is_valid = true with repaired = null is
\* returned only if the plan needed no repair.
C2_ValidOnlyIfZeroRepairs ==
    (Returned /\ isinstance_dict(plan) /\ result.is_valid /\ Repaired = JNull) => ZeroRepairs

\* C3: in every repaired plan that is returned, every endpoint of an edge and
\* every parentId names an entity of that plan.
C3_NoDanglingReference == HasRepaired => NoDangling(diagram_type, Repaired)

\* The nodes of a mind map from which following parentId reaches a node without
\* parent in at most n steps.
RECURSIVE Rooted(_, _)
Rooted(nodes, n) ==
    IF n = 0 THEN {j \in 1..Len(nodes) : nodes[j].m.parentId = JNull}
    ELSE LET below == Rooted(nodes, n - 1)
         IN below \cup {j \in 1..Len(nodes) :
                           \E k \in below : nodes[j].m.parentId = nodes[k].m.id}

\* C4: a repaired mind map has exactly one node without parent, and following
\* parentId from any node reaches it.
C4_OneRootNoCycle ==
    (HasRepaired /\ diagram_type = "mindtree") =>
        LET nodes == ListOf(Repaired, "nodes")
        IN /\ Cardinality({j \in 1..Len(nodes) : nodes[j].m.parentId = JNull}) = 1
           /\ Rooted(nodes, Len(nodes)) = 1..Len(nodes)

\* C5: in every repaired plan that is returned, the ids of the entities of one
\* collection are pairwise distinct.
C5_IdsDistinct ==
    HasRepaired => \A key \in IdCollections(diagram_type) : DistinctIds(Repaired, key)

\* C6: the order values of the ordered collection of a repaired plan are 1..N in
\* list order, N the number of entries kept: in the plan that is returned, and in
\* the plan every validator builds whether or not it returns it.
C6_OrdersAreOneToN ==
    (Returned /\ diagram_type \in OrderKinds) =>
        \A r \in {Repaired, built} :
            r # JNull => OrdersAreOneToN(r, OrderedKey(diagram_type))

\* A raw order value that is not the position the entry ends at: missing, not a
\* number, or below 1.
OddOrder(e) ==
    isinstance_dict(e) /\ (Get(e.m, "order").t # "int" \/ Get(e.m, "order") = JInt(0)
                           \/ Get(e.m, "order") = JInt(-2))

\* C6 witness: a sequence plan came back repaired with several messages whose raw
\* order values were missing, non-numeric or below 1.
C6_Witness ==
    /\ HasRepaired
    /\ diagram_type = "sequence"
    /\ Len(ListOf(Repaired, "messages")) >= 2
    /\ \E j \in 1..Len(ensure_list(plan.m, "messages")) :
          OddOrder(ensure_list(plan.m, "messages")[j])

ScenarioB ==
    Plan2("participants", <<WithId("A"), WithId("B")>>,
          "messages", <<EdgeO("A", "B", JInt(5)), EdgeO("B", "A", JInt(1))>>)

\* C7: for the sequence plan with messages [A->B order 5, B->A order 1] and valid
\* participants, validate_and_repair yields a repaired plan whose messages are
\* [B->A order 1, A->B order 2].
C7_ScenarioBSorted ==
    (Returned /\ diagram_type = "sequence" /\ plan = ScenarioB) =>
        /\ Repaired # JNull
        /\ LET m == ListOf(Repaired, "messages")
           IN /\ Len(m) = 2
              /\ m[1].m.from = JStr("B") /\ m[1].m.to = JStr("A") /\ m[1].m.order = JInt(1)
              /\ m[2].m.from = JStr("A") /\ m[2].m.to = JStr("B") /\ m[2].m.order = JInt(2)

ScenarioC ==
    JMap([nodes |-> JList(<<WithId("root"),
                            JMap([id |-> JStr("x"), parentId |-> JStr("missing")])>>)])

\* C8: for the mind map [{id: root}, {id: x, parentId: missing}],
\* validate_and_repair returns a repaired plan in which x.parentId is root.
C8_OrphanHungUnderRoot ==
    (Returned /\ diagram_type = "mindtree" /\ plan = ScenarioC) =>
        /\ Repaired # JNull
        /\ ListOf(Repaired, "nodes")[2].m.parentId = JStr("root")

\* C9: validating a returned repaired plan again gives is_valid = true and no
\* errors.
C9_RepairIdempotent ==
    pc = "revalidated" => (recheck.is_valid /\ Len(recheck.errors) = 0)

\* The bounds of the bounded collections, per kind: <<key, min, max>>.
Bounds(kind) ==
    CASE kind = "architecture" -> <<"components", MinArchComponents, MaxArchComponents>>
      [] kind = "lld" -> <<"modules", 2, MaxModules>>
      [] kind = "mindtree" -> <<"nodes", 2, MaxMindNodes>>
      [] kind = "class" -> <<"classes", 1, MaxClasses>>

\* C10: in every repaired plan that is returned, architecture components number
\* 2..20, LLD modules 2..15, mind-map nodes 2..25 and classes 1..15.
C10_WithinBounds ==
    (HasRepaired /\ diagram_type \in {"architecture", "lld", "mindtree", "class"}) =>
        LET b == Bounds(diagram_type)
            n == Len(ListOf(Repaired, b[1]))
        IN b[2] <= n /\ n <= b[3]

\* C11: validate_and_repair and get_valid_plan are total: for every kind and every
\* raw plan, whatever JSON type its fields hold, the call returns and never raises.
C11_NeverRaises == pc # "raised"

\* C12: the plan get_valid_plan returns is valid for its kind: it is a map, and
\* validating it again returns is_valid = true.
C12_ValidPlanIsValid ==
    pc = "rechecked" => (isinstance_dict(valid_plan) /\ recheck.is_valid)

(***************************************************************************)
(* Label sanitizing (backend/agent/layouts.py).                            *)
(***************************************************************************)
RECURSIVE replace(_, _, _)
\* str.replace(old, new): every occurrence, left to right, without overlap.
replace(s, old, new) ==
    IF Len(s) < Len(old) THEN s
    ELSE IF SubSeq(s, 1, Len(old)) = old
    THEN new \o replace(SubSeq(s, Len(old) + 1, Len(s)), old, new)
    ELSE SubSeq(s, 1, 1) \o replace(SubSeq(s, 2, Len(s)), old, new)

\* The replacements of lines 168-177, in their order, on the stripped text.
Replaced(t0) ==
    LET t1 == replace(replace(t0, "&", " and "), "\"", "'")
        t2 == replace(replace(t1, "]", " "), "[", " ")
        t3 == replace(replace(t2, ")", " "), "(", " ")
        t4 == replace(replace(t3, "{", " "), "}", " ")
        t5 == replace(replace(t4, "<", ""), ">", "")
        t6 == replace(replace(t5, "\\n", " - "), "\n", " ")
        t7 == replace(replace(t6, "\"]", " "), "\")", " ")
    IN replace(t7, "\"])", " ")

\* The return without its strip: the replaced text as it is.
StripOrSpaceSkipped(t) == t

\* return text.strip() or " "
StripOrSpace(t) == IF Len(Strip(t)) > 0 THEN Strip(t) ELSE " "

\* _sanitize_mermaid_label(text) for a string.
sanitize_mermaid_label(t) == IF Len(t) = 0 THEN "" ELSE StripOrSpace(Replaced(Strip(t)))

\* The characters the sanitizer treats, a letter of " and ", a blank and the pipe.
LabelChars ==
    {"a", "n", "&", "\"", "[", "]", "(", ")", "{", "}", "<", ">", "\\", "\n", " ", "|"}

MaxLabelLen == 3

RECURSIVE Strings(_, _)
\* The strings of at most n characters of chars.
Strings(chars, n) ==
    IF n = 0 THEN {""} ELSE {""} \cup {c \o s : c \in chars, s \in Strings(chars, n - 1)}

\* The variables of the validators while the label sanitizer runs.
PlanParked ==
    /\ diagram_type = "chat" /\ plan = JNull /\ pc = "parked"
    /\ result = NoResult /\ built = JNull /\ recheck = NoResult /\ valid_plan = JNull

LabelInit ==
    /\ label_text \in Strings(LabelChars, MaxLabelLen)
    /\ label_site = "sanitizer"
    /\ label_once = "" /\ label_twice = "" /\ label_pc = "text"
    /\ PlanParked /\ RenderParked /\ RetryParked /\ FrameParked /\ AppParked

\* label_once = _sanitize_mermaid_label(label_text)
Sanitize ==
    /\ label_pc = "text"
    /\ label_once' = sanitize_mermaid_label(label_text)
    /\ label_pc' = "once"
    /\ UNCHANGED <<label_site, label_text, label_twice>>
    /\ UNCHANGED <<plan_vars, render_vars, retry_vars, frame_vars, app_vars>>

\* label_twice = _sanitize_mermaid_label(label_once)
SanitizeAgain ==
    /\ label_pc = "once"
    /\ label_twice' = sanitize_mermaid_label(label_once)
    /\ label_pc' = "twice"
    /\ UNCHANGED <<label_site, label_text, label_once>>
    /\ UNCHANGED <<plan_vars, render_vars, retry_vars, frame_vars, app_vars>>

LabelNext == Sanitize \/ SanitizeAgain

SpecLabel == LabelInit /\ [][LabelNext]_vars

\* The characters with a structural meaning in the target grammar.
Delimiters == {"[", "]", "{", "}", "(", ")", "\"", "|", "\n"}

HasChar(s, chars) == \E i \in 1..Len(s) : SubSeq(s, i, i) \in chars

\* C13: the sanitized label holds no square bracket, brace, parenthesis, double
\* quote, pipe or newline, and it is non-empty whenever the text is non-empty.
C13_NoDelimiterNeverEmpty ==
    label_pc \in {"once", "twice"} =>
        /\ ~HasChar(label_once, Delimiters)
        /\ (Len(label_text) > 0 => Len(label_once) > 0)

\* C14: sanitizing a sanitized label changes nothing.
C14_SanitizeIdempotent == label_pc = "twice" => label_twice = label_once

\* A text the first pass rewrites: an ampersand becomes " and ", the bracket a blank
\* that the final strip removes.
C14_Witness ==
    /\ label_pc = "twice"
    /\ label_text = "[&a"
    /\ label_once = "and a"
    /\ label_twice = "and a"

(***************************************************************************)
(* The label expressions of the renderers: what plan_to_mermaid and        *)
(* _hld_to_mermaid put into the text for a label field of the plan.        *)
(***************************************************************************)
\* x or default, for strings
OrStr(x, default) == IF Len(x) > 0 THEN x ELSE default

\* .replace('"', "'")
Requote(x) == replace(x, "\"", "'")

\* The places where a renderer emits a label of the plan.
LabelSites ==
    {"sequence.participant", "sequence.message", "flowchart.node", "flowchart.edge",
     "activity.node", "class.name", "class.attribute", "state.name",
     "state.transition", "usecase.actor", "usecase.useCase", "usecase.systemBoundary",
     "component.name", "component.dependency", "deployment.node",
     "deployment.description", "deployment.artifact", "deployment.connection",
     "mindtree.root", "mindtree.child", "hld.name", "hld.tech", "hld.flow"}

\* The label plan_to_mermaid emits at a site for the label field x; the id that
\* stands in for a missing label is "n0".
plan_to_mermaid_label(site, x) ==
    CASE site = "sequence.participant" -> Slice(Requote(OrStr(x, "?")), 40)
      [] site = "sequence.message" -> Slice(replace(Requote(x), "\n", " "), 60)
      [] site \in {"flowchart.node", "activity.node"} ->
            Slice(Requote(replace(replace(replace(replace(OrStr(x, "n0"),
                "]", " "), "[", " "), "(", " "), ")", " ")), 40)
      [] site = "flowchart.edge" -> Strip(x)
      [] site = "class.name" -> Requote(OrStr(x, "Class"))
      [] site = "class.attribute" -> Slice(replace(replace(Requote(x), "{", " "), "}", " "), 50)
      [] site = "state.name" -> Slice(replace(Requote(OrStr(x, "?")), ":", " "), 40)
      [] site = "state.transition" -> Slice(replace(Requote(x), ":", " "), 30)
      [] site = "usecase.actor" -> Slice(Requote(OrStr(x, "n0")), 30)
      [] site = "usecase.useCase" -> Slice(Requote(OrStr(x, "n0")), 40)
      [] site = "usecase.systemBoundary" -> Slice(Requote(OrStr(Strip(x), "System")), 50)
      [] site = "component.name" -> Slice(Requote(OrStr(x, "n0")), 40)
      [] site = "deployment.node" -> Slice(Requote(OrStr(x, "n0")), 35)
      [] site = "deployment.description" -> Slice(Requote(x), 40)
      [] site = "deployment.artifact" -> Slice(Requote(OrStr(x, "n0")), 30)
      [] site \in {"component.dependency", "deployment.connection"} -> Slice(Requote(x), 30)
      [] site = "mindtree.root" -> Slice(OrStr(x, "Root"), 40)
      [] site = "mindtree.child" -> replace(replace(Slice(OrStr(x, "n0"), 40), "(", ""), ")", "")

\* The label _hld_to_mermaid emits for a component name, a tech and a flow label.
hld_to_mermaid_label(site, x) ==
    CASE site = "hld.name" -> sanitize_mermaid_label(Slice(OrStr(x, "Component"), 35))
      [] site = "hld.tech" -> sanitize_mermaid_label(Slice(x, 20))
      [] site = "hld.flow" -> x

HldSites == {"hld.name", "hld.tech", "hld.flow"}

EmitChars == {"a", "\"", "[", "]", "{", "}", "(", ")", ":", "\n", " "}

MaxEmitLen == 2

ScenarioD == "He said \"hi\" [ok]{yes}"

EmitInit ==
    /\ label_site \in LabelSites
    /\ label_text \in Strings(EmitChars, MaxEmitLen) \cup {ScenarioD}
    /\ label_once = "" /\ label_twice = "" /\ label_pc = "text"
    /\ PlanParked /\ RenderParked /\ RetryParked /\ FrameParked /\ AppParked

\* The renderer emits the label of one site.
EmitLabel ==
    /\ label_pc = "text"
    /\ label_site \in LabelSites
    /\ label_once' = IF label_site \in HldSites
                      THEN hld_to_mermaid_label(label_site, label_text)
                      ELSE plan_to_mermaid_label(label_site, label_text)
    /\ label_pc' = "emitted"
    /\ UNCHANGED <<label_site, label_text, label_twice>>
    /\ UNCHANGED <<plan_vars, render_vars, retry_vars, frame_vars, app_vars>>

SpecEmit == EmitInit /\ [][EmitLabel]_vars

Unsafe == {"\"", "[", "]", "{", "}"}

\* C15: for every site of every diagram kind, a label that holds a double
\* quote, a square bracket or a brace is emitted without any of these characters.
C15_EmittedLabelSanitized ==
    (label_pc = "emitted" /\ HasChar(label_text, Unsafe)) => ~HasChar(label_once, Unsafe)

(***************************************************************************)
(* The identifiers a render issues: _safe_id, _safe_class_id, the class    *)
(* ids of _lld_to_mermaid and the node ids of the use case render.         *)
(***************************************************************************)
IsAlnum(c) == HasChar(Lowers \o Uppers \o Digits, {c})

\* "".join(c if c.isalnum() or c == "_" else "_" for c in s)
RECURSIVE Underscored(_)
Underscored(s) ==
    IF Len(s) = 0 THEN ""
    ELSE (IF IsAlnum(SubSeq(s, 1, 1)) THEN SubSeq(s, 1, 1) ELSE "_")
             \o Underscored(SubSeq(s, 2, Len(s)))

\* _safe_id(raw, max_len) for a string
safe_id(raw, max_len) ==
    OrStr(Slice(Underscored(replace(Strip(raw), "-", "_")), max_len), "n")

\* _safe_class_id(name) for a string
safe_class_id(name) ==
    OrStr(Slice(Underscored(replace(replace(Strip(name), "-", "_"), " ", "_")), 30), "C")

Range(f) == {f[i] : i \in DOMAIN f}

\* The loop over the interfaces or the classes of one module: issued is the
\* sequence of class ids emitted so far, all_class_ids its set of values.
RECURSIVE IssueClassIds(_, _, _, _)
IssueClassIds(mod_id, members, default, issued) ==
    IF Len(members) = 0 THEN issued
    ELSE LET name == Slice(StripOr(members[1].m, "name", default), 40)
             cid == safe_class_id(mod_id \o "_" \o name)
             all_class_ids == Range(issued)
         IN IssueClassIds(mod_id, Tail(members), default,
                Append(issued, IF cid \in all_class_ids
                                 THEN cid \o "_" \o NatStr(Cardinality(all_class_ids))
                                 ELSE cid))

\* The loop over the modules: the class ids in the order of their class blocks.
RECURSIVE lld_class_ids(_, _)
lld_class_ids(modules, issued) ==
    IF Len(modules) = 0 THEN issued
    ELSE LET mod == modules[1].m
             mod_id == safe_class_id(Slice(StripOr(mod, "name", "Module"), 40))
         IN lld_class_ids(Tail(modules),
                IssueClassIds(mod_id, PyOr(Get(mod, "classes"), JList(<<>>)).l, "Class",
                    IssueClassIds(mod_id, PyOr(Get(mod, "interfaces"), JList(<<>>)).l, "I",
                        issued)))

\* uc_to_actor: the first actor, in actor order, that a link ties to the use case.
uc_to_actor(actors, links, ucid) ==
    LET tied == {i \in 1..Len(actors) :
                    \E j \in 1..Len(links) :
                        /\ StripOr(links[j].m, "actorId", "") = StripOr(actors[i].m, "id", "a" \o NatStr(i - 1))
                        /\ StripOr(links[j].m, "useCaseId", "") = ucid}
    IN IF ucid = "" \/ tied = {} THEN ""
       ELSE LET i == CHOOSE i \in tied : \A k \in tied : i <= k
            IN StripOr(actors[i].m, "id", "a" \o NatStr(i - 1))

\* The nodes of one actor's column: the actor, then every use case whose
\* uc_to_actor entry is the actor's stripped id.  (The ids of the model are
\* never blank, so "" stands for a use case without an entry.)
UsecaseColumn(actors, use_cases, links, i) ==
    LET a_id_strip == StripOr(actors[i].m, "id", "")
        mine == SelectSeq(use_cases, LAMBDA uc :
                    /\ uc_to_actor(actors, links, StripOr(uc.m, "id", "")) # ""
                    /\ uc_to_actor(actors, links, StripOr(uc.m, "id", "")) = a_id_strip)
    IN <<safe_id(PyOr(Get(actors[i].m, "id"), JStr("a")).s, 20)>> \o
       [k \in 1..Len(mine) |-> safe_id(OrStr(StripOr(mine[k].m, "id", ""), "uc"), 20)]

\* The node ids of the use case render: the columns in actor order, then the
\* use cases without an entry in uc_to_actor.
usecase_node_ids(actors, use_cases, links) ==
    LET Columns[i \in 0..Len(actors)] ==
            IF i = 0 THEN <<>> ELSE Columns[i - 1] \o UsecaseColumn(actors, use_cases, links, i)
        unplaced_ucs == SelectSeq(use_cases, LAMBDA uc :
                            uc_to_actor(actors, links, StripOr(uc.m, "id", "")) = "")
    IN Columns[Len(actors)] \o
       [k \in 1..Len(unplaced_ucs) |->
           safe_id(PyOr(Get(unplaced_ucs[k].m, "id"), JStr("uc")).s, 20)]

MaxIdModules == 2

MaxIdMembers == 2

\* Names that sanitize to the same token, and one that looks disambiguated.
IdNames == {"-", "_", "__2", "a"}

NamedOnly(names) == {JMap([name |-> JStr(x)]) : x \in names}

LldIdModules ==
    {JMap([name |-> JStr(n), interfaces |-> JList(i), classes |-> JList(c)]) :
        n \in {"M", "M-"}, i \in Seqs(NamedOnly(IdNames), 1), c \in Seqs(NamedOnly(IdNames), MaxIdMembers)}

LldIdPlans == {JMap([modules |-> JList(m)]) : m \in Seqs(LldIdModules, MaxIdModules)}

UsecaseIds == {"-", "_", "u"}

UsecaseIdPlans ==
    {JMap([actors |-> JList(a), useCases |-> JList(u), links |-> JList(l)]) :
        a \in Seqs({WithId(x) : x \in UsecaseIds}, MaxIdMembers),
        u \in Seqs({WithId(x) : x \in UsecaseIds}, MaxIdMembers),
        l \in Seqs({JMap([actorId |-> JStr(x), useCaseId |-> JStr(y)]) :
                        x \in UsecaseIds, y \in UsecaseIds}, 1)}

IdsInit ==
    /\ render_kind \in {"lld", "usecase"}
    /\ render_plan \in (IF render_kind = "lld" THEN LldIdPlans ELSE UsecaseIdPlans)
    /\ render_out = <<>> /\ render_pc = "plan"
    /\ PlanParked /\ LabelParked /\ RetryParked /\ FrameParked /\ AppParked

\* _lld_to_mermaid: the class ids of the class blocks it emits.
RenderLld ==
    /\ render_pc = "plan" /\ render_kind = "lld"
    /\ render_out' = lld_class_ids(render_plan.m.modules.l, <<>>)
    /\ render_pc' = "rendered"
    /\ UNCHANGED <<render_kind, render_plan>>
    /\ UNCHANGED <<plan_vars, label_vars, retry_vars, frame_vars, app_vars>>

\* plan_to_mermaid("usecase", plan): the node ids of the nodes it emits.
RenderUsecase ==
    /\ render_pc = "plan" /\ render_kind = "usecase"
    /\ render_out' = usecase_node_ids(render_plan.m.actors.l, render_plan.m.useCases.l,
                                      render_plan.m.links.l)
    /\ render_pc' = "rendered"
    /\ UNCHANGED <<render_kind, render_plan>>
    /\ UNCHANGED <<plan_vars, label_vars, retry_vars, frame_vars, app_vars>>

IdsNext == RenderLld \/ RenderUsecase

SpecIds == IdsInit /\ [][IdsNext]_vars

\* The names and ids of the entities of the plan, in the order of render_out
\* when every entity is emitted: for lld the module name with the member name.
LldEntityNames ==
    LET Of(m) == [k \in 1..Len(m.interfaces.l) |-> <<m.name.s, m.interfaces.l[k].m.name.s>>]
                 \o [k \in 1..Len(m.classes.l) |-> <<m.name.s, m.classes.l[k].m.name.s>>]
        All[i \in 0..Len(render_plan.m.modules.l)] ==
            IF i = 0 THEN <<>> ELSE All[i - 1] \o Of(render_plan.m.modules.l[i].m)
    IN All[Len(render_plan.m.modules.l)]

Injective(f) == \A i, j \in DOMAIN f : i # j => f[i] # f[j]

\* C16: in one render the identifiers issued for entities with different names
\* or ids are pairwise different.
C16_IssuedIdsDistinct ==
    /\ (render_pc = "rendered" /\ render_kind = "lld" /\ Injective(LldEntityNames))
           => Injective(render_out)
    /\ (render_pc = "rendered" /\ render_kind = "usecase"
            /\ Injective(render_plan.m.actors.l \o render_plan.m.useCases.l))
           => Injective(render_out)

(***************************************************************************)
(* Component classification: COMPONENT_CATEGORIES, _detect_component_type *)
(* and _enhance_components.  The icon of a category is left out: it is a   *)
(* constant of the category like its type and tier.                        *)
(***************************************************************************)
\* The table in its declared order, which is the order a dict iterates in.
COMPONENT_CATEGORIES ==
    <<
       [category |-> "load_balancer", type |-> "balancer", tier |-> 0,
        keywords |-> <<"load balancer", "lb", "nginx", "haproxy", "alb", "elb", "traefik", "envoy", "reverse proxy">>],
       [category |-> "cdn", type |-> "cdn", tier |-> 0,
        keywords |-> <<"cdn", "cloudfront", "cloudflare", "akamai", "fastly", "edge">>],
       [category |-> "gateway", type |-> "gateway", tier |-> 1,
        keywords |-> <<"api gateway", "gateway", "kong", "apigee", "zuul", "ambassador">>],
       [category |-> "auth", type |-> "auth", tier |-> 2,
        keywords |-> <<"auth", "authentication", "authorization", "oauth", "jwt", "identity", "iam", "keycloak", "auth0", "okta", "sso", "login">>],
       [category |-> "service", type |-> "server", tier |-> 3,
        keywords |-> <<"service", "microservice", "api", "backend", "server", "application", "app">>],
       [category |-> "function", type |-> "function", tier |-> 4,
        keywords |-> <<"lambda", "function", "serverless", "faas", "cloud function", "azure function">>],
       [category |-> "queue", type |-> "queue", tier |-> 5,
        keywords |-> <<"queue", "message", "kafka", "rabbitmq", "sqs", "pubsub", "event", "broker", "streaming", "kinesis">>],
       [category |-> "cache", type |-> "cache", tier |-> 5,
        keywords |-> <<"cache", "redis", "memcached", "elasticache", "caching">>],
       [category |-> "database", type |-> "database", tier |-> 6,
        keywords |-> <<"database", "db", "postgres", "mysql", "mongodb", "dynamodb", "sql", "nosql", "storage", "data store", "rds", "aurora">>],
       [category |-> "search", type |-> "search", tier |-> 6,
        keywords |-> <<"search", "elasticsearch", "opensearch", "solr", "algolia", "full-text">>],
       [category |-> "storage", type |-> "storage", tier |-> 6,
        keywords |-> <<"s3", "blob", "object storage", "file storage", "bucket", "gcs">>],
       [category |-> "external", type |-> "external", tier |-> 7,
        keywords |-> <<"external", "third-party", "payment", "stripe", "paypal", "email", "sms", "twilio", "sendgrid">>],
       [category |-> "monitoring", type |-> "monitoring", tier |-> 7,
        keywords |-> <<"monitoring", "logging", "metrics", "prometheus", "grafana", "datadog", "newrelic", "elk", "observability">>],
       [category |-> "client", type |-> "client", tier |-> -1,
        keywords |-> <<"client", "user", "browser", "mobile", "frontend", "web app", "ui">>]
    >>

\* keyword in name_lower
Contains(s, sub) ==
    \E i \in 1..(Len(s) - Len(sub) + 1) : SubSeq(s, i, i + Len(sub) - 1) = sub

\* The returned dict for the category at index k of the table.
Detected(k) ==
    [category |-> COMPONENT_CATEGORIES[k].category, type |-> COMPONENT_CATEGORIES[k].type,
     tier |-> COMPONENT_CATEGORIES[k].tier]

\* The loops without their return: the last matching category wins.
FirstMatchSkipped(matching) == CHOOSE k \in matching : \A j \in matching : j <= k

\* The loops return at the first category that matches.
FirstMatch(matching) == CHOOSE k \in matching : \A j \in matching : k <= j

\* _detect_component_type(name, explicit_type) for a string name and an
\* explicit type that is a string or None.
detect_component_type(name, explicit_type) ==
    LET name_lower == Lower(name)
        explicit_lower == Lower(PyOr(explicit_type, JStr("")).s)
        by_type == {k \in 1..Len(COMPONENT_CATEGORIES) :
                       \/ explicit_lower = COMPONENT_CATEGORIES[k].type
                       \/ explicit_lower \in Range(COMPONENT_CATEGORIES[k].keywords)}
        by_name == {k \in 1..Len(COMPONENT_CATEGORIES) :
                       \E j \in 1..Len(COMPONENT_CATEGORIES[k].keywords) :
                           Contains(name_lower, COMPONENT_CATEGORIES[k].keywords[j])}
    IN IF Truthy(explicit_type) /\ by_type # {} THEN Detected(FirstMatch(by_type))
       ELSE IF by_name # {} THEN Detected(FirstMatch(by_name))
       ELSE [category |-> "service", type |-> "server", tier |-> 3]

\* One entry of _enhance_components: {**comp, "name": ..., "type": ..., ...}
Enhanced(comp) ==
    LET name == IF "name" \in DOMAIN comp THEN comp.name ELSE JStr("Service")
        detected == detect_component_type(name.s, Get(comp, "type"))
    IN JMap(("name" :> name) @@ ("type" :> JStr(detected.type))
            @@ ("category" :> JStr(detected.category)) @@ ("tier" :> JInt(detected.tier))
            @@ comp)

\* _enhance_components(components)
enhance_components(components) == [i \in 1..Len(components) |-> Enhanced(components[i].m)]

MaxEnhanced == 2

ComponentNames ==
    {"Redis Cache", "Cache Service", "API Gateway", "User DB", "Widget", "Edge Cache",
     "Kafka", "Album Store"}

\* Components without a type, with an empty one, with one the table knows and
\* with one it does not know; and one component without a name.
EnhanceComponents ==
    {JMap([name |-> JStr(n)]) : n \in ComponentNames}
    \cup {JMap([name |-> JStr(n), type |-> JStr(t)]) :
              n \in ComponentNames, t \in {"", "Cache", "widget"}}
    \cup {JMap([id |-> JStr("c1")])}

EnhanceInit ==
    /\ render_kind = "architecture"
    /\ render_plan \in {JList(l) : l \in Seqs(EnhanceComponents, MaxEnhanced)}
    /\ render_out = <<>> /\ render_pc = "plan"
    /\ PlanParked /\ LabelParked /\ RetryParked /\ FrameParked /\ AppParked

\* enhanced = _enhance_components(components)
EnhanceComponentsStep ==
    /\ render_pc = "plan" /\ render_kind = "architecture"
    /\ render_out' = enhance_components(render_plan.l)
    /\ render_pc' = "enhanced"
    /\ UNCHANGED <<render_kind, render_plan>>
    /\ UNCHANGED <<plan_vars, label_vars, retry_vars, frame_vars, app_vars>>

SpecEnhance == EnhanceInit /\ [][EnhanceComponentsStep]_vars

\* The categories one of whose keywords occurs in the lower-cased name.
NameCategories(name_lower) ==
    {k \in 1..Len(COMPONENT_CATEGORIES) :
        \E kw \in Range(COMPONENT_CATEGORIES[k].keywords) : Contains(name_lower, kw)}

Earliest(categories) ==
    IF categories = {} THEN "service"
    ELSE COMPONENT_CATEGORIES[CHOOSE k \in categories : \A j \in categories : k <= j].category

\* The category the claim names for a component without explicit type.
ExpectedCategory(name) == Earliest(NameCategories(Lower(name)))

NoExplicitType(comp) == ~Truthy(Get(comp.m, "type"))

\* C17: a component without explicit type gets the first category of the table
\* with a keyword in its lower-cased name, or service; whatever stands around
\* it, "Redis Cache" gets cache.
C17_FirstCategoryByName ==
    render_pc = "enhanced" =>
        \A i \in 1..Len(render_plan.l) :
            (NoExplicitType(render_plan.l[i]) /\ "name" \in DOMAIN render_plan.l[i].m) =>
                /\ render_out[i].m.category.s = ExpectedCategory(render_plan.l[i].m.name.s)
                /\ render_plan.l[i].m.name.s = "Redis Cache" =>
                       render_out[i].m.category.s = "cache"

C17_Witness ==
    /\ render_pc = "enhanced"
    /\ render_plan = JList(<<JMap([name |-> JStr("Cache Service")]),
                             JMap([name |-> JStr("Redis Cache")])>>)
    /\ render_out[1].m.category.s = "service"
    /\ render_out[2].m.category.s = "cache"

(***************************************************************************)
(* validate_and_retry and plan_uml: validate the proposed plan, ask the    *)
(* producer once for a correction, fall back to get_valid_plan.  plan is   *)
(* the proposed plan, result its validation, recheck the validation of the *)
(* corrected plan, valid_plan the plan the call returns.                   *)
(***************************************************************************)
\* The producer raised, or its answer holds no JSON (extract_json and
\* _parse_json raise then).
ProducerFailed == [t |-> "raise"]

\* The kinds plan_uml has a system prompt for.
UML_PROMPTS ==
    {"class", "sequence", "usecase", "activity", "flowchart", "state", "component",
     "deployment", "mindtree"}

\* What the producer may answer to the fix prompt: nothing usable, the same
\* plan again, a value that is no plan, the repaired plan, and a plan with a
\* number where the validator strips a string.
Corrections(kind, p, first) ==
    {ProducerFailed, p, JNull, get_valid_plan(kind, p, first),
     JMap([components |-> JList(<<JMap([name |-> JInt(5)])>>),
           nodes |-> JList(<<JMap([id |-> JInt(5)])>>)])}

RetryInit ==
    /\ caller \in {"validate_and_retry", "plan_uml"}
    /\ llm \in BOOLEAN
    /\ diagram_type \in KINDS
    /\ plan \in RawPlans(diagram_type) \cup (IF caller = "plan_uml" THEN {ProducerFailed} ELSE {})
    /\ pc = "proposed" /\ asked = 0 /\ outcome = "none"
    /\ result = NoResult /\ built = JNull /\ recheck = NoResult /\ valid_plan = JNull
    /\ LabelParked /\ RenderParked /\ FrameParked /\ AppParked

\* The call returns the plan v with the given outcome.
Return(how, v) ==
    /\ outcome' = how
    /\ valid_plan' = v
    /\ pc' = "returned"

\* return get_valid_plan(diagram_type, plan), after a validation that did not raise
Fallback ==
    \E first \in FirstOfSet(diagram_type, plan) :
        Return("fallback", get_valid_plan(diagram_type, plan, first))

\* validate_and_retry up to llm_to_use.invoke: the validation of the proposed plan
\* stands outside the try block.
RetryValidate ==
    /\ caller = "validate_and_retry" /\ pc = "proposed"
    /\ IF Raises(diagram_type, plan)
       THEN outcome' = "raised" /\ pc' = "returned" /\ UNCHANGED <<result, valid_plan>>
       ELSE \E first \in FirstOfSet(diagram_type, plan) :
              /\ result' = validate_and_repair(diagram_type, plan, first)
              /\ IF result'.is_valid THEN Return("valid", plan)
                 ELSE IF llm /\ Len(result'.errors) > 0
                      THEN pc' = "correction" /\ UNCHANGED <<outcome, valid_plan>>
                      ELSE Fallback
    /\ asked' = IF pc' = "correction" THEN asked + 1 ELSE asked
    /\ UNCHANGED <<caller, llm, diagram_type, plan, built, recheck>>
    /\ UNCHANGED <<label_vars, render_vars, frame_vars, app_vars>>

\* plan_uml up to the second llm.invoke: without a prompt or a producer, and on
\* any exception of the first round, it returns _mock_plan_uml.
PlanUml ==
    /\ caller = "plan_uml" /\ pc = "proposed"
    /\ IF diagram_type \notin UML_PROMPTS \/ ~llm \/ plan = ProducerFailed
       THEN Return("fallback", JStr("mock plan")) /\ UNCHANGED result
       ELSE IF Raises(diagram_type, plan)
       THEN Return("fallback", JStr("mock plan")) /\ UNCHANGED result
       ELSE \E first \in FirstOfSet(diagram_type, plan) :
              /\ result' = validate_and_repair(diagram_type, plan, first)
              /\ IF result'.is_valid THEN Return("valid", plan)
                 ELSE IF Len(result'.errors) > 0
                      THEN pc' = "correction" /\ UNCHANGED <<outcome, valid_plan>>
                      ELSE Fallback
    /\ asked' = IF pc' = "correction" THEN asked + 1 ELSE asked
    /\ UNCHANGED <<caller, llm, diagram_type, plan, built, recheck>>
    /\ UNCHANGED <<label_vars, render_vars, frame_vars, app_vars>>

\* The correction round of both functions, inside its try block: the answer is
\* validated; a valid answer is returned, and an invalid answer, like any
\* exception, leaves the call with get_valid_plan of the proposed plan.
Correction ==
    /\ pc = "correction"
    /\ \E first \in FirstOfSet(diagram_type, plan) :
         \E retry_plan \in Corrections(diagram_type, plan, first) :
           IF retry_plan = ProducerFailed \/ Raises(diagram_type, retry_plan)
           THEN Fallback /\ UNCHANGED recheck
           ELSE \E again \in FirstOfSet(diagram_type, retry_plan) :
                  /\ recheck' = validate_and_repair(diagram_type, retry_plan, again)
                  /\ IF recheck'.is_valid THEN Return("valid after retry", retry_plan)
                     ELSE Fallback
    /\ UNCHANGED <<caller, llm, asked, diagram_type, plan, result, built>>
    /\ UNCHANGED <<label_vars, render_vars, frame_vars, app_vars>>

RetryNext == RetryValidate \/ PlanUml \/ Correction

SpecRetry == RetryInit /\ [][RetryNext]_vars

\* C18: a correction is asked for at most once, and the call ends by returning
\* a plan that passed validation or the repaired/fallback plan: it never ends
\* with an exception.
C18_OneCorrectionThenPlan ==
    /\ asked <= 1
    /\ pc = "returned" =>
          \/ outcome = "valid" /\ valid_plan = plan /\ result.is_valid
          \/ outcome = "valid after retry" /\ recheck.is_valid /\ asked = 1
          \/ outcome = "fallback"

\* The artifacts of the proposed deployment plan that the validator keeps, in
\* the order of the artifacts of the plan it builds.
KeptArtifacts ==
    LET artifacts == ensure_list(plan.m, "artifacts")
    IN [j \in 1..Len(DictIdx(artifacts)) |-> artifacts[DictIdx(artifacts)[j]].m]

Dangling(a) ==
    /\ Len(Slice(StripOr(a, "nodeId", ""), MaxId)) > 0
    /\ Slice(StripOr(a, "nodeId", ""), MaxId) \notin IdsOf(built.m.nodes.l)

\* C19: in the plan a deployment validation builds, an artifact whose nodeId
\* names no node gets the id of the first node in declaration order, and the
\* plan built is the same whichever validation of the proposed plan built it.
C19_DanglingArtifactToFirstNode ==
    (pc = "validated" /\ diagram_type = "deployment" /\ isinstance_dict(plan)) =>
        /\ \A j \in 1..Len(KeptArtifacts) :
               Dangling(KeptArtifacts[j]) =>
                   built.m.artifacts.l[j].m.nodeId.s = built.m.nodes.l[1].m.id.s
        /\ \A first \in FirstOfSet(diagram_type, plan) :
               KindPlan(diagram_type, plan.m, first).repaired = built

(***************************************************************************)
(* Calls followed dict by dict.  A dict display {...} stores a new dict at *)
(* a free address; an assignment d[k] = v changes the dict at d's address. *)
(* The three operations carry the three ways the validators and renderers  *)
(* write to a dict: the renumbering of sorted edges (validate_sequence and *)
(* the four validators with the same loop, validate_usecase for its        *)
(* links), the parentId assignments of validate_mindtree, and the          *)
(* {**comp, ...} displays of _enhance_components and of the architecture   *)
(* renderers.                                                              *)
(***************************************************************************)
Free == [t |-> "free"]

MaxFrameEntries == 3

\* Room for the entries passed in and two dicts made from each.
Addresses == 1..(3 * MaxFrameEntries)

FreeAddress(h) ==
    CHOOSE a \in Addresses : h[a] = Free /\ \A b \in Addresses : h[b] = Free => a <= b

\* The dicts at the addresses of a list.
Deref(h, refs) == [j \in 1..Len(refs) |-> h[refs[j]]]

\* repaired.append({...}) for each dict of dicts: every display is a new dict.
RECURSIVE NewDicts(_, _, _)
NewDicts(h, dicts, refs) ==
    IF Len(dicts) = 0 THEN [heap |-> h, refs |-> refs]
    ELSE NewDicts([h EXCEPT ![FreeAddress(h)] = dicts[1]], Tail(dicts),
                  Append(refs, FreeAddress(h)))

\* for j, d in enumerate(refs): d[key] = ..., leaving dicts[j] at refs[j].
RECURSIVE Assign(_, _, _)
Assign(h, refs, dicts) ==
    IF Len(refs) = 0 THEN h
    ELSE Assign([h EXCEPT ![refs[1]] = dicts[1]], Tail(refs), Tail(dicts))

\* The display without its copy: the entries are written into comp itself.
CopyDictSkipped(h, comp, entries) ==
    [heap |-> [h EXCEPT ![comp] = JMap(entries @@ h[comp].m)], ref |-> comp]

\* {**comp, ...entries}: a new dict with the entries of comp under the given ones.
CopyDict(h, comp, entries) ==
    [heap |-> [h EXCEPT ![FreeAddress(h)] = JMap(entries @@ h[comp].m)],
     ref |-> FreeAddress(h)]

\* list.sort(key=lambda x: x["order"]) of a list of addresses.
SortRefs(h, refs) ==
    LET keyed == [j \in 1..Len(refs) |-> [ref |-> refs[j], order |-> h[refs[j]].m.order]]
    IN [j \in 1..Len(refs) |-> SortByOrder(keyed)[j].ref]

\* The messages part of validate_sequence (lines 297-324) for participants A, B.
FrameSequence(h, messages) ==
    LET kept == KeptEdges(Deref(h, messages), {"A", "B"}, MaxParticipantId, MaxSeqLabel)
        made == NewDicts(h, [j \in 1..Len(kept) |-> JMap(kept[j])], <<>>)
        repaired_messages == SortRefs(made.heap, made.refs)
    IN [heap |-> Assign(made.heap, repaired_messages,
                        Sorted([j \in 1..Len(kept) |-> made.heap[repaired_messages[j]].m])),
        refs |-> repaired_messages]

\* validate_mindtree (lines 594-639) for a list with at least one dict.
FrameMindtree(h, nodes) ==
    LET nodes0 == MindNodes(Deref(h, nodes))
        made == NewDicts(h, [j \in 1..Len(nodes0) |-> JMap(nodes0[j])], <<>>)
        fixed == FixParents(OneRoot(nodes0, MindRootCount(Deref(h, nodes))),
                            {nodes0[j].id.s : j \in 1..Len(nodes0)})
    IN [heap |-> Assign(made.heap, made.refs, [j \in 1..Len(fixed) |-> JMap(fixed[j])]),
        refs |-> made.refs]

\* _enhance_components (lines 131-146): enhanced.append({**comp, ...}) for each
\* component from the i-th on (1-based).
RECURSIVE FrameEnhance(_, _, _, _)
FrameEnhance(h, components, i, enhanced) ==
    IF i > Len(components) THEN [heap |-> h, refs |-> enhanced]
    ELSE LET made == CopyDict(h, components[i], Enhanced(h[components[i]].m).m)
         IN FrameEnhance(made.heap, components, i + 1, Append(enhanced, made.ref))

\* The loop of _architecture_to_mermaid_tb that files {**comp, "index": i} under
\* the tier of comp (lines 214-216), from the i-th enhanced component on.
RECURSIVE FrameByTier(_, _, _, _)
FrameByTier(h, enhanced, i, filed) ==
    IF i > Len(enhanced) THEN [heap |-> h, refs |-> filed]
    ELSE LET made == CopyDict(h, enhanced[i], "index" :> JInt(i - 1))
         IN FrameByTier(made.heap, enhanced, i + 1, Append(filed, made.ref))

FrameArchitecture(enhanced) == FrameByTier(enhanced.heap, enhanced.refs, 1, <<>>)

FrameEntries(op) ==
    CASE op = "validate_sequence" ->
            {JMap([from |-> JStr("A"), to |-> JStr("B"), label |-> JStr("x"), order |-> JInt(5)]),
             JMap([from |-> JStr("B"), to |-> JStr("A"), label |-> JStr("y"), order |-> JInt(1)]),
             JMap([from |-> JStr("A"), to |-> JStr("B")]),
             JMap([from |-> JStr("A"), to |-> JStr("Z")])}
      [] op = "validate_mindtree" ->
            {WithId("root"), JMap([id |-> JStr("x"), parentId |-> JStr("missing")]),
             JMap([id |-> JStr("y"), parentId |-> JStr("x")])}
      [] op = "_architecture_to_mermaid_tb" ->
            {JMap([name |-> JStr("Redis Cache")]),
             JMap([name |-> JStr("API"), type |-> JStr("server")]), WithId("c1")}

FrameInit ==
    /\ frame_op \in {"validate_sequence", "validate_mindtree", "_architecture_to_mermaid_tb"}
    /\ \E l \in Seqs(FrameEntries(frame_op), MaxFrameEntries) :
          /\ Len(l) > 0
          /\ heap = [a \in Addresses |-> IF a <= Len(l) THEN l[a] ELSE Free]
          /\ refs_in = [j \in 1..Len(l) |-> j]
    /\ refs_out = <<>> /\ frame_pc = "called"
    /\ PlanParked /\ LabelParked /\ RenderParked /\ RetryParked /\ AppParked

\* The call leaves the memory h and the list refs.
FrameReturn(r) ==
    /\ heap' = r.heap
    /\ refs_out' = r.refs
    /\ frame_pc' = "returned"
    /\ UNCHANGED <<refs_in, frame_op>>
    /\ UNCHANGED <<plan_vars, label_vars, render_vars, retry_vars, app_vars>>

ValidateSequenceFrame ==
    frame_pc = "called" /\ frame_op = "validate_sequence"
        /\ FrameReturn(FrameSequence(heap, refs_in))

ValidateMindtreeFrame ==
    frame_pc = "called" /\ frame_op = "validate_mindtree"
        /\ FrameReturn(FrameMindtree(heap, refs_in))

ArchitectureFrame ==
    frame_pc = "called" /\ frame_op = "_architecture_to_mermaid_tb"
        /\ FrameReturn(FrameArchitecture(FrameEnhance(heap, refs_in, 1, <<>>)))

FrameNext == ValidateSequenceFrame \/ ValidateMindtreeFrame \/ ArchitectureFrame

SpecFrame == FrameInit /\ [][FrameNext]_vars

NoHldComponent(p) ==
    \A key \in HLD_LAYERS :
        LET val == Get(ensure_dict(p, "layers"), key)
        IN ~(isinstance_list(val) /\ Len(val.l) > 0)

DefaultedLayers == {"presentation", "application", "business", "data"}

\* C21: for an HLD plan in which no layer has a component, validate_and_repair
\* returns is_valid = false and a repaired plan whose presentation, application,
\* business and data layers hold one component each.
C21_EmptyHldGetsDefaults ==
    (pc = "validated" /\ diagram_type = "hld" /\ isinstance_dict(plan)
       /\ NoHldComponent(plan.m)) =>
        /\ ~result.is_valid
        /\ result.repaired # JNull
        /\ \A key \in DefaultedLayers : Len(result.repaired.m.layers.m[key].l) = 1

(***************************************************************************)
(* _mindtree_to_mermaid of the plan get_valid_plan returns, one call of    *)
(* emit_tree at a time.  A frame of the stack is one call in progress: the *)
(* parent_id it was given and the position of its loop over the children.  *)
(* The interpreter ends a recursion deeper than its limit with a           *)
(* RecursionError; the model does so at MaxTreeDepth calls.                *)
(***************************************************************************)
MaxTreeNodes == 3

MaxTreeDepth == 5

\* The nodes the renderer reads (line 423), for a plan that is a dict.
TreeNodes(p) == IF isinstance_dict(p) THEN ensure_list(p.m, "nodes") ELSE <<>>

\* (n.get("id") or "").strip()
TreeId(n) == StripOr(n.m, "id", "")

\* The positions of the nodes the loop of lines 428-440 files: dicts with an id.
Filed(nodes) ==
    SelectSeq(DictIdx(nodes), LAMBDA i : Len(TreeId(nodes[i])) > 0)

\* The key of children a filed node goes under: None or the stripped parentId.
ParentKey(n) ==
    LET pid == Get(n.m, "parentId")
    IN IF pid = JNull THEN JNull ELSE JStr(Strip(PyStr(pid)))

\* children.get(parent_id, []) as positions in nodes.
children(nodes, parent_id) ==
    SelectSeq(Filed(nodes), LAMBDA i : ParentKey(nodes[i]) = parent_id)

\* roots (lines 458-461): the nodes under None, or else the first key of by_id.
roots(nodes) ==
    IF Len(children(nodes, JNull)) > 0 THEN children(nodes, JNull)
    ELSE IF Len(Filed(nodes)) > 0
         THEN <<CHOOSE i \in Range(Filed(nodes)) :
                   /\ TreeId(nodes[i]) = TreeId(nodes[Filed(nodes)[1]])
                   /\ \A k \in Range(Filed(nodes)) :
                         TreeId(nodes[k]) = TreeId(nodes[i]) => k <= i>>
         ELSE <<>>

TreeEntries ==
    {JMap([id |-> JStr(id)]) : id \in {"a", "b"}} \cup
    {JMap([id |-> JStr(id), parentId |-> JStr(pid)]) : id \in {"a", "b"}, pid \in {"a", "b"}}

TreePlans == {JMap([nodes |-> JList(l)]) : l \in Seqs(TreeEntries, MaxTreeNodes)}

TreeInit ==
    /\ tree_plan \in TreePlans
    /\ root_i = 0 /\ stack = <<>> /\ emitted = <<>>
    /\ tree_pc = "raw"
    /\ PlanParked /\ LabelParked /\ RenderParked /\ RetryParked /\ FrameParked
    /\ CacheParked /\ UsageParked /\ PayParked

TreeFrame ==
    UNCHANGED <<plan_vars, label_vars, render_vars, retry_vars, frame_vars, cache_vars,
                usage_vars, pay_vars>>

\* plan = get_valid_plan("mindtree", plan)
TreeValidPlan ==
    /\ tree_pc = "raw"
    /\ tree_plan' = get_valid_plan("mindtree", tree_plan, "")
    /\ tree_pc' = "valid"
    /\ UNCHANGED <<root_i, stack, emitted>>
    /\ TreeFrame

\* _mindtree_to_mermaid(plan) up to its loop over the roots (lines 423-466).
MindtreeToMermaid ==
    /\ tree_pc = "valid"
    /\ IF Len(TreeNodes(tree_plan)) = 0 \/ Len(roots(TreeNodes(tree_plan))) = 0
       THEN tree_pc' = "returned" /\ UNCHANGED root_i
       ELSE tree_pc' = "roots" /\ root_i' = 1
    /\ UNCHANGED <<tree_plan, stack, emitted>>
    /\ TreeFrame

\* One round of the loop over the roots: the root's line and the call
\* emit_tree(root id, 1), or the return after the last root (lines 466-470).
EmitRoot ==
    /\ tree_pc = "roots" /\ stack = <<>>
    /\ LET rs == roots(TreeNodes(tree_plan))
       IN IF root_i > Len(rs)
          THEN tree_pc' = "returned" /\ UNCHANGED <<root_i, stack, emitted>>
          ELSE /\ emitted' = Append(emitted, rs[root_i])
               /\ stack' = <<[parent_id |-> JStr(TreeId(TreeNodes(tree_plan)[rs[root_i]])),
                              next |-> 1]>>
               /\ root_i' = root_i + 1
               /\ UNCHANGED tree_pc
    /\ UNCHANGED tree_plan
    /\ TreeFrame

\* One step of the innermost emit_tree (lines 446-456): the line of its next child
\* and the call emit_tree(cid, depth + 1), or its return after the last child.
EmitTree ==
    /\ tree_pc = "roots" /\ Len(stack) > 0
    /\ LET top == stack[Len(stack)]
           kids == children(TreeNodes(tree_plan), top.parent_id)
       IN IF top.next > Len(kids)
          THEN /\ stack' = SubSeq(stack, 1, Len(stack) - 1)
               /\ UNCHANGED <<emitted, tree_pc>>
          ELSE IF Len(stack) >= MaxTreeDepth
               THEN tree_pc' = "RecursionError" /\ UNCHANGED <<stack, emitted>>
               ELSE /\ emitted' = Append(emitted, kids[top.next])
                    /\ stack' = Append([stack EXCEPT ![Len(stack)].next = top.next + 1],
                                       [parent_id |-> JStr(TreeId(TreeNodes(tree_plan)[kids[top.next]])),
                                        next |-> 1])
                    /\ UNCHANGED tree_pc
    /\ UNCHANGED <<tree_plan, root_i>>
    /\ TreeFrame

TreeNext == TreeValidPlan \/ MindtreeToMermaid \/ EmitRoot \/ EmitTree

SpecTree == TreeInit /\ [][TreeNext]_vars

\* C22: rendering the plan get_valid_plan returns for a raw mind-map plan ends
\* without a RecursionError; no node is emitted twice and the calls of emit_tree
\* in progress never number more than the nodes of the plan.
C22_EmitTreeBounded ==
    /\ tree_pc # "RecursionError"
    /\ Len(stack) <= Len(TreeNodes(tree_plan))
    /\ \A i, j \in 1..Len(emitted) : emitted[i] = emitted[j] => i = j

(***************************************************************************)
(* The three architecture layouts.  A render is kept as the node ids it    *)
(* defines, in the order of their lines, and the edges it draws; labels,   *)
(* shapes and subgraph lines do not decide which nodes and edges there are.*)
(***************************************************************************)
NodeId(i) == "n" \o NatStr(i)

Arrow(from, to) == [from |-> from, to |-> to]

\* The 0-based indices of the enhanced components with value v under key,
\* in the order they were appended to by_tier[v] or by_category[v].
Items(enhanced, key, v) ==
    LET idx == SelectSeq([i \in 1..Len(enhanced) |-> i], LAMBDA i : enhanced[i].m[key] = v)
    IN [j \in 1..Len(idx) |-> idx[j] - 1]

RECURSIVE Flatten(_)
Flatten(ss) == IF Len(ss) = 0 THEN <<>> ELSE ss[1] \o Flatten(Tail(ss))

\* sorted([t for t in by_tier.keys() if t >= 0])
tier_order(enhanced) ==
    SelectSeq([t \in 1..8 |-> t - 1], LAMBDA t : Len(Items(enhanced, "tier", JInt(t))) > 0)

\* The items of each tier of tier_order.
TierItems(enhanced) ==
    [k \in 1..Len(tier_order(enhanced)) |-> Items(enhanced, "tier", JInt(tier_order(enhanced)[k]))]

\* client --> n for every component of the first tier (lines 239-242, 297-300).
ClientEdges(tiers) ==
    IF Len(tiers) = 0 THEN <<>>
    ELSE [j \in 1..Len(tiers[1]) |-> Arrow("client", NodeId(tiers[1][j]))]

\* Every pair of a component and a component of the next tier (lines 243-250).
AllPairs(current_items, next_items) ==
    Flatten([a \in 1..Len(current_items) |->
                [b \in 1..Len(next_items) |-> Arrow(NodeId(current_items[a]), NodeId(next_items[b]))]])

\* First to first, and every pair of the others when both tiers have more than
\* one component (lines 301-309).
FirstAndRest(current_items, next_items) ==
    <<Arrow(NodeId(current_items[1]), NodeId(next_items[1]))>> \o
    (IF Len(current_items) > 1 /\ Len(next_items) > 1
     THEN AllPairs(Tail(current_items), Tail(next_items)) ELSE <<>>)

Rendered(groups, edges) ==
    [nodes |-> [j \in 1..Len(Flatten(groups)) |-> NodeId(Flatten(groups)[j])],
     groups |-> groups, edges |-> edges]

architecture_to_mermaid_tb(tiers) ==
    Rendered(tiers, ClientEdges(tiers) \o
                    Flatten([k \in 1..(Len(tiers) - 1) |-> AllPairs(tiers[k], tiers[k + 1])]))

architecture_to_mermaid_lr(tiers) ==
    Rendered(tiers, ClientEdges(tiers) \o
                    Flatten([k \in 1..(Len(tiers) - 1) |-> FirstAndRest(tiers[k], tiers[k + 1])]))

category_order ==
    <<"client", "load_balancer", "cdn", "gateway", "auth", "service", "function", "queue",
      "cache", "database", "search", "storage", "external", "monitoring">>

\* The items of each category the loop of lines 336-362 does not skip.
CategoryItems(enhanced) ==
    LET kept == SelectSeq(category_order,
                    LAMBDA c : c # "client" /\ Len(Items(enhanced, "category", JStr(c))) > 0)
    IN [k \in 1..Len(kept) |-> Items(enhanced, "category", JStr(kept[k]))]

\* The edge after the groups without its last_node: drawn from the first node.
LastToFirstSkipped(items, next_items) == Arrow(NodeId(items[1]), NodeId(next_items[1]))

\* last_node --> first_node of lines 365-368.
LastToFirst(items, next_items) == Arrow(NodeId(items[Len(items)]), NodeId(next_items[1]))

architecture_to_mermaid_grouped(groups) ==
    Rendered(groups,
             (IF Len(groups) > 0 THEN <<Arrow("client", NodeId(groups[1][1]))>> ELSE <<>>) \o
             [k \in 1..(Len(groups) - 1) |-> LastToFirst(groups[k], groups[k + 1])])

MaxRendered == 3

\* Components as validate_architecture leaves them: a name and an allowed type.
RenderedComponents ==
    {ArchComp("Orders", "server"), ArchComp("Billing", "server"), ArchComp("Ledger", "database"),
     ArchComp("Shopper", "client"), ArchComp("Files", "storage"), ArchComp("Sessions", "cache")}

\* Lists of those, and every allowed type alone under two names.
RenderedPlans ==
    {JList(l) : l \in Seqs(RenderedComponents, MaxRendered)} \cup
    {JList(<<ArchComp(n, t)>>) : n \in {"Widget", "User DB"}, t \in ARCHITECTURE_TYPES}

ArchInit ==
    /\ render_kind \in {"Hierarchical", "Horizontal", "Grouped"}
    /\ render_plan \in RenderedPlans
    /\ render_out = <<>> /\ render_pc = "plan"
    /\ PlanParked /\ LabelParked /\ RetryParked /\ FrameParked /\ AppParked

ArchReturn(enhanced, out) ==
    /\ render_out' = [enhanced |-> enhanced, nodes |-> out.nodes, groups |-> out.groups,
                      edges |-> out.edges]
    /\ render_pc' = "rendered"
    /\ UNCHANGED <<render_kind, render_plan>>
    /\ UNCHANGED <<plan_vars, label_vars, retry_vars, frame_vars, app_vars>>

ArchitectureTb ==
    /\ render_pc = "plan" /\ render_kind = "Hierarchical"
    /\ ArchReturn(enhance_components(render_plan.l),
                  architecture_to_mermaid_tb(TierItems(enhance_components(render_plan.l))))

ArchitectureLr ==
    /\ render_pc = "plan" /\ render_kind = "Horizontal"
    /\ ArchReturn(enhance_components(render_plan.l),
                  architecture_to_mermaid_lr(TierItems(enhance_components(render_plan.l))))

ArchitectureGrouped ==
    /\ render_pc = "plan" /\ render_kind = "Grouped"
    /\ ArchReturn(enhance_components(render_plan.l),
                  architecture_to_mermaid_grouped(CategoryItems(enhance_components(render_plan.l))))

ArchNext == ArchitectureTb \/ ArchitectureLr \/ ArchitectureGrouped

SpecArch == ArchInit /\ [][ArchNext]_vars

\* C23: the grouped layout draws the edge from the client node to the first
\* component of the first group and, between consecutive groups, one edge from
\* the first component of the group to the first component of the next; no other.
C23_FirstToFirstOfNextGroup ==
    (render_pc = "rendered" /\ render_kind = "Grouped") =>
        LET groups == render_out.groups
        IN render_out.edges =
              (IF Len(groups) > 0 THEN <<Arrow("client", NodeId(groups[1][1]))>> ELSE <<>>) \o
              [k \in 1..(Len(groups) - 1) |-> Arrow(NodeId(groups[k][1]), NodeId(groups[k + 1][1]))]

\* C28: a component whose explicit type is one of ARCHITECTURE_TYPES is
\* classified with that type, whatever its name.
C28_AllowedTypeKept ==
    render_pc = "rendered" =>
        \A i \in 1..Len(render_plan.l) :
            render_plan.l[i].m.type.s \in ARCHITECTURE_TYPES =>
                render_out.enhanced[i].m.type = render_plan.l[i].m.type

\* C29: each layout defines one node for every component of a validated plan
\* (two components or more), and every edge joins the client node or a defined
\* node to a defined node.
C29_OneNodePerComponent ==
    (render_pc = "rendered" /\ Len(render_plan.l) >= MinArchComponents) =>
        /\ Len(render_out.nodes) = Len(render_plan.l)
        /\ Range(render_out.nodes) = {NodeId(i - 1) : i \in 1..Len(render_plan.l)}
        /\ \A k \in 1..Len(render_out.edges) :
              /\ render_out.edges[k].from \in Range(render_out.nodes) \cup {"client"}
              /\ render_out.edges[k].to \in Range(render_out.nodes)

(***************************************************************************)
(* The lanes of the use-case layouts.  For each use case the render keeps  *)
(* the lanes it is put in: the 0-based columns of actors, or "system" for  *)
(* the subgraph after the actor columns.                                   *)
(***************************************************************************)
\* The lane of the 0-based column i.
Lane(i) == "col_" \o NatStr(i)

\* plan_to_mermaid("usecase", plan), lines 612-634: a use case is emitted in the
\* column of every actor whose stripped id is its uc_to_actor entry, or in the
\* system subgraph when it has no entry.
usecase_mermaid_lanes(actors, use_cases, links) ==
    [u \in 1..Len(use_cases) |->
        LET first_actor == uc_to_actor(actors, links, StripOr(use_cases[u].m, "id", ""))
        IN IF first_actor = "" THEN {"system"}
           ELSE {Lane(i - 1) : i \in {k \in 1..Len(actors) : StripOr(actors[k].m, "id", "") = first_actor}}]

\* uc_to_actors.get(ucid, []) of _layout_usecase_swimlane (lines 789-798), as a set.
uc_to_actors(links, ucid) ==
    {StripOr(links[j].m, "actorId", "") :
        j \in {k \in 1..Len(links) : /\ StripOr(links[k].m, "actorId", "") # ""
                                     /\ StripOr(links[k].m, "useCaseId", "") = ucid}}

\* aid_to_col[aid]: a dict display keeps the last index of a repeated key.
aid_to_col(actor_ids, aid) ==
    (CHOOSE i \in 1..Len(actor_ids) :
        actor_ids[i] = aid /\ \A k \in 1..Len(actor_ids) : actor_ids[k] = aid => k <= i) - 1

\* The column without its default: a use case no actor links to has no lane.
SwimlaneColSkipped(actor_ids, linked) ==
    LET hits == {i \in 1..Len(actor_ids) : actor_ids[i] \in linked}
    IN IF hits = {} THEN "system"
       ELSE Lane(aid_to_col(actor_ids, actor_ids[CHOOSE i \in hits : \A k \in hits : i <= k]))

\* col of lines 805-811: the column of the first actor that is linked, else the
\* last column.
SwimlaneCol(actor_ids, linked) ==
    LET hits == {i \in 1..Len(actor_ids) : actor_ids[i] \in linked}
    IN IF hits = {} THEN Lane(Len(actor_ids) - 1)
       ELSE Lane(aid_to_col(actor_ids, actor_ids[CHOOSE i \in hits : \A k \in hits : i <= k]))

\* _layout_usecase_swimlane for one actor at least (lines 785-812).
layout_usecase_swimlane(actor_nodes, use_case_nodes, links) ==
    LET actor_ids == [i \in 1..Len(actor_nodes) |-> actor_nodes[i].m.id.s]
    IN [u \in 1..Len(use_case_nodes) |->
           {SwimlaneCol(actor_ids, uc_to_actors(links, use_case_nodes[u].m.id.s))}]

MaxLaneEntities == 2

LanePlans ==
    {JMap([actors |-> JList(a), useCases |-> JList(u), links |-> JList(l)]) :
        a \in Seqs({WithId("a"), WithId("b")}, MaxLaneEntities) \ {<<>>},
        u \in Seqs({WithId("u"), WithId("v")}, MaxLaneEntities),
        l \in Seqs({JMap([actorId |-> JStr(x), useCaseId |-> JStr(y)]) :
                        x \in {"a", "b"}, y \in {"u", "v"}}, 2)}

LaneInit ==
    /\ render_kind \in {"plan_to_mermaid", "_layout_usecase_swimlane"}
    /\ render_plan \in LanePlans
    /\ render_out = <<>> /\ render_pc = "plan"
    /\ PlanParked /\ LabelParked /\ RetryParked /\ FrameParked /\ AppParked

LaneReturn(lanes) ==
    /\ render_out' = lanes
    /\ render_pc' = "placed"
    /\ UNCHANGED <<render_kind, render_plan>>
    /\ UNCHANGED <<plan_vars, label_vars, retry_vars, frame_vars, app_vars>>

UsecaseMermaid ==
    /\ render_pc = "plan" /\ render_kind = "plan_to_mermaid"
    /\ LaneReturn(usecase_mermaid_lanes(render_plan.m.actors.l, render_plan.m.useCases.l,
                                        render_plan.m.links.l))

UsecaseSwimlane ==
    /\ render_pc = "plan" /\ render_kind = "_layout_usecase_swimlane"
    /\ LaneReturn(layout_usecase_swimlane(render_plan.m.actors.l, render_plan.m.useCases.l,
                                          render_plan.m.links.l))

LaneNext == UsecaseMermaid \/ UsecaseSwimlane

SpecLane == LaneInit /\ [][LaneNext]_vars

\* The 1-based positions of the declared actors with a link to use case ucid.
LinkedActors(p, ucid) ==
    {i \in 1..Len(p.actors.l) :
        \E j \in 1..Len(p.links.l) :
            /\ p.links.l[j].m.actorId = p.actors.l[i].m.id
            /\ p.links.l[j].m.useCaseId.s = ucid}

\* C24: each use case is in the lane of the earliest-declared actor with a link
\* to it and in no other; a use case without a link is in the system lane.
C24_LaneOfEarliestActor ==
    render_pc = "placed" =>
        \A u \in 1..Len(render_plan.m.useCases.l) :
            LET linked == LinkedActors(render_plan.m, render_plan.m.useCases.l[u].m.id.s)
            IN IF linked = {} THEN render_out[u] = {"system"}
               ELSE render_out[u] = {Lane((CHOOSE i \in linked : \A k \in linked : i <= k) - 1)}

(***************************************************************************)
(* The flags validate_and_retry returns with the plan.                     *)
(***************************************************************************)
\* The third member of the tuple at each return: (plan, True, False) of line 56,
\* (retry_plan, True, True) of line 86 and (final, False, True) of line 93.
retry_used == outcome \in {"valid after retry", "fallback"}

\* C25: validate_and_retry returns retry_used = true exactly when it sent a
\* correction request to the producer during the call.
C25_RetryUsedIffAsked ==
    (caller = "validate_and_retry" /\ pc = "returned" /\ outcome # "raised") =>
        (retry_used <=> asked > 0)

(***************************************************************************)
(* The response cache: _cache_get and _cache_set.  The source holds 256    *)
(* entries (_CACHE_MAX); the model runs the same code with room for        *)
(* CacheMax entries so that a full cache is reached.  The values stored do *)
(* not decide which key is evicted and are left out.                       *)
(***************************************************************************)
CacheMax == 2

CacheKeys == {"k1", "k2", "k3", "k4"}

\* list.remove(key) of a list that holds key once.
Without(order, key) == SelectSeq(order, LAMBDA k : k # key)

CacheInit ==
    /\ cache = {} /\ cache_order = <<>> /\ recency = <<>>
    /\ evicted = "none" /\ lru_then = "none"
    /\ PlanParked /\ LabelParked /\ RenderParked /\ RetryParked /\ FrameParked
    /\ TreeParked /\ UsageParked /\ PayParked

CacheFrame ==
    UNCHANGED <<plan_vars, label_vars, render_vars, retry_vars, frame_vars, tree_vars,
                usage_vars, pay_vars>>

\* _cache_get(key): reads _cache and nothing else; a hit is a use of the key.
CacheGet ==
    \E key \in CacheKeys :
        /\ recency' = IF key \in cache THEN Append(Without(recency, key), key) ELSE recency
        /\ UNCHANGED <<cache, cache_order, evicted, lru_then>>
        /\ CacheFrame

\* _cache_set(key, value)
CacheSet ==
    \E key \in CacheKeys :
        /\ IF key \in cache
           THEN /\ cache' = cache
                /\ cache_order' = Append(Without(cache_order, key), key)
                /\ recency' = Append(Without(recency, key), key)
                /\ UNCHANGED <<evicted, lru_then>>
           ELSE IF Cardinality(cache) >= CacheMax
           THEN /\ cache' = (cache \ {Head(cache_order)}) \cup {key}
                /\ cache_order' = Append(Tail(cache_order), key)
                /\ recency' = Append(Without(recency, Head(cache_order)), key)
                /\ evicted' = Head(cache_order)
                /\ lru_then' = Head(recency)
           ELSE /\ cache' = cache \cup {key}
                /\ cache_order' = Append(cache_order, key)
                /\ recency' = Append(recency, key)
                /\ UNCHANGED <<evicted, lru_then>>
        /\ CacheFrame

CacheNext == CacheGet \/ CacheSet

SpecCache == CacheInit /\ [][CacheNext]_vars

\* C26: the cache never holds more than its maximum of entries, and the entry
\* evicted for a new key is the least recently used one, a hit of _cache_get
\* counting as a use.
C26_EvictsLeastRecentlyUsed ==
    /\ Cardinality(cache) <= CacheMax
    /\ evicted = lru_then

(***************************************************************************)
(* check_and_increment_usage for one free-plan user within one month, so   *)
(* that _reset_monthly_usage_if_needed only refreshes the user.  Every     *)
(* request has its own AsyncSession (get_db) and with it its own user      *)
(* object; an await (db.refresh, db.commit) is where another request runs. *)
(* The commit writes the value the session holds: UPDATE users SET         *)
(* diagrams_this_month = <value>.                                          *)
(***************************************************************************)
FreeLimit == 5

MaxRequests == 3

Requests == 1..MaxRequests

\* The user has made up to FreeLimit diagrams this month, one request after the
\* other, when the requests of the model arrive.
UsageInit ==
    /\ db_count \in 0..FreeLimit
    /\ granted = db_count
    /\ session = [r \in Requests |-> [pc |-> "arrived", diagrams_this_month |-> 0]]
    /\ PlanParked /\ LabelParked /\ RenderParked /\ RetryParked /\ FrameParked
    /\ TreeParked /\ CacheParked /\ PayParked

UsageFrame ==
    UNCHANGED <<plan_vars, label_vars, render_vars, retry_vars, frame_vars, tree_vars,
                cache_vars, pay_vars>>

\* await db.refresh(user) of line 30: the session reads the user's row.
RefreshUser(r) ==
    /\ session[r].pc = "arrived"
    /\ session' = [session EXCEPT ![r] = [pc |-> "refreshed", diagrams_this_month |-> db_count]]
    /\ UNCHANGED <<db_count, granted>>
    /\ UsageFrame

\* Lines 48-58: raise 429 at the limit, or else user.diagrams_this_month += 1.
CheckLimit(r) ==
    /\ session[r].pc = "refreshed"
    /\ session' = [session EXCEPT ![r] =
                      IF session[r].diagrams_this_month >= FreeLimit
                      THEN [@ EXCEPT !.pc = "429"]
                      ELSE [pc |-> "added", diagrams_this_month |-> @.diagrams_this_month + 1]]
    /\ UNCHANGED <<db_count, granted>>
    /\ UsageFrame

\* await db.commit() of line 59; the call then returns and the diagram is made.
CommitUser(r) ==
    /\ session[r].pc = "added"
    /\ db_count' = session[r].diagrams_this_month
    /\ granted' = granted + 1
    /\ session' = [session EXCEPT ![r].pc = "returned"]
    /\ UsageFrame

UsageNext == \E r \in Requests : RefreshUser(r) \/ CheckLimit(r) \/ CommitUser(r)

SpecUsage == UsageInit /\ [][UsageNext]_vars

\* C27: within one month at most 5 calls of check_and_increment_usage succeed
\* for a free-plan user, also when requests run concurrently.
C27_AtMostFivePerMonth == granted <= FreeLimit

(***************************************************************************)
(* verify_payment (with a valid signature) and the subscription.activated  *)
(* webhook for one subscription that create_subscription has stored with   *)
(* status "created".  Each call has its own database session; the awaits   *)
(* (db.execute, db.get, db.commit) are where other calls run.  A commit    *)
(* that inserts a second Payment row with the same razorpay_payment_id     *)
(* fails on the unique constraint and the call ends with an error.         *)
(***************************************************************************)
MaxDeliveries == 2

Deliveries == 1..MaxDeliveries

PayInit ==
    /\ sub_status = "created" /\ user_plan = "free" /\ payments = 0
    /\ verify = [i \in Deliveries |-> "pending"]
    /\ webhook = [i \in Deliveries |-> "pending"]
    /\ PlanParked /\ LabelParked /\ RenderParked /\ RetryParked /\ FrameParked
    /\ TreeParked /\ CacheParked /\ UsageParked

PayFrame ==
    UNCHANGED <<plan_vars, label_vars, render_vars, retry_vars, frame_vars, tree_vars,
                cache_vars, usage_vars>>

\* verify_payment, lines 281-313: the subscription is read; an active one ends
\* the call ("already active"), otherwise the session sets active and pro.
VerifySelect(i) ==
    /\ verify[i] = "pending"
    /\ verify' = [verify EXCEPT ![i] = IF sub_status = "active" THEN "returned" ELSE "activating"]
    /\ UNCHANGED <<sub_status, user_plan, payments, webhook>>
    /\ PayFrame

\* Lines 316-344: the Payment row is looked up and added to the session when
\* there is none.
VerifyPayment(i) ==
    /\ verify[i] = "activating"
    /\ verify' = [verify EXCEPT ![i] = IF payments = 0 THEN "adding" ELSE "keeping"]
    /\ UNCHANGED <<sub_status, user_plan, payments, webhook>>
    /\ PayFrame

\* await db.commit() of line 346.
VerifyCommit(i) ==
    /\ verify[i] \in {"adding", "keeping"}
    /\ IF verify[i] = "adding" /\ payments > 0
       THEN /\ verify' = [verify EXCEPT ![i] = "IntegrityError"]
            /\ UNCHANGED <<sub_status, user_plan, payments>>
       ELSE /\ sub_status' = "active"
            /\ user_plan' = "pro"
            /\ payments' = IF verify[i] = "adding" THEN payments + 1 ELSE payments
            /\ verify' = [verify EXCEPT ![i] = "returned"]
    /\ UNCHANGED webhook
    /\ PayFrame

\* _webhook_subscription_activated, lines 527-550: the subscription is read; an
\* active one ends the delivery, otherwise the session sets active and pro.
WebhookSelect(i) ==
    /\ webhook[i] = "pending"
    /\ webhook' = [webhook EXCEPT ![i] = IF sub_status = "active" THEN "returned" ELSE "activating"]
    /\ UNCHANGED <<sub_status, user_plan, payments, verify>>
    /\ PayFrame

\* await db.commit() of line 553: the webhook writes no Payment row.
WebhookCommit(i) ==
    /\ webhook[i] = "activating"
    /\ sub_status' = "active"
    /\ user_plan' = "pro"
    /\ webhook' = [webhook EXCEPT ![i] = "returned"]
    /\ UNCHANGED <<payments, verify>>
    /\ PayFrame

PayNext ==
    \E i \in Deliveries :
        VerifySelect(i) \/ VerifyPayment(i) \/ VerifyCommit(i) \/ WebhookSelect(i) \/ WebhookCommit(i)

SpecPay == PayInit /\ [][PayNext]_vars

Ended(at) == at \in {"pending", "returned", "IntegrityError"}

\* Both have been processed: a call of verify_payment and a delivery of the
\* webhook have ended and none is under way.
BothProcessed ==
    /\ \A i \in Deliveries : Ended(verify[i]) /\ Ended(webhook[i])
    /\ \E i \in Deliveries : verify[i] # "pending"
    /\ \E i \in Deliveries : webhook[i] # "pending"

\* C30: once verify_payment and the webhook have both been processed, in any
\* order and however often, the subscription is active, the user's plan is pro
\* and there is exactly one Payment row for the verified payment.
C30_ActiveProOnePayment ==
    BothProcessed => (sub_status = "active" /\ user_plan = "pro" /\ payments = 1)

====
